---- MODULE Spec2Model ----
(***************************************************************************)
(* Method selection and evaluation engine of thermo/utils.py:              *)
(* TDependentProperty and TPDependentProperty.                             *)
(*                                                                         *)
(* One property instance is modelled.  Property values are integers in     *)
(* units of 1/1000, temperatures are integers in K.                        *)
(***************************************************************************)
EXTENDS Integers, Sequences, FiniteSets, TLC

VARIABLES
    klass,                            \* class of the instance
    CASRN,                            \* self.CASRN
    all_methods,                      \* self.all_methods (set)
    Tmin, Tmax,                       \* self.Tmin, self.Tmax (Unset: attribute absent)
    user_methods,                     \* self.user_methods (list)
    forced,                           \* self.forced
    method,                           \* self.method (None: no active method)
    sorted_valid_methods,             \* self.sorted_valid_methods (list)
    tabular_data,                     \* self.tabular_data: name -> (Ts, properties)
    tabular_data_interpolators,       \* self.tabular_data_interpolators: key -> (extrapolator, spline)
    tabular_extrapolation_permitted,  \* self.tabular_extrapolation_permitted
    interpolation_T,                  \* self.interpolation_T (None or the name of a function)
    interpolation_P,                  \* self.interpolation_P
    interpolation_property,           \* self.interpolation_property
    interpolation_property_inv,       \* self.interpolation_property_inv
    all_methods_P,                    \* self.all_methods_P (set)
    user_methods_P,                   \* self.user_methods_P (list)
    forced_P,                         \* self.forced_P
    method_P,                         \* self.method_P
    sorted_valid_methods_P,           \* self.sorted_valid_methods_P (list)
    call,                             \* the last call made on the instance, with its arguments
    ret                               \* what that call returned or raised

vars == <<klass, CASRN, all_methods, Tmin, Tmax, user_methods, forced, method,
          sorted_valid_methods, tabular_data, tabular_data_interpolators,
          tabular_extrapolation_permitted, interpolation_T, interpolation_P,
          interpolation_property, interpolation_property_inv, all_methods_P, user_methods_P, forced_P,
          method_P, sorted_valid_methods_P, call, ret>>

Tvars == <<all_methods, user_methods, forced, method, sorted_valid_methods>>
Pvars == <<all_methods_P, user_methods_P, forced_P, method_P, sorted_valid_methods_P>>
Ivars == <<interpolation_T, interpolation_P, interpolation_property, interpolation_property_inv>>

----------------------------------------------------------------------------
(* Bounds of the model *)

MaxUserLen == 2      \* longest preference list passed to set_user_methods
MaxStoredLen == 2    \* set_tabular_data is not called once user_methods is this long

(* Program constants *)

TEST_METHOD_1 == "Test method 1"
TEST_METHOD_2 == "Test method 2"
None == "None"       \* Python None where a method name is expected
Unset == -1          \* an attribute that was never assigned
property_min == 0
property_max == 10000000   \* 1E4, in units of 1/1000

\* the two ranks exchanged
ranked_methods_swapped == <<TEST_METHOD_1, TEST_METHOD_2>>
ranked_methods == <<TEST_METHOD_2, TEST_METHOD_1>>

TEST_METHOD_1_Tmin == 200
TEST_METHOD_1_Tmax == 350
TEST_METHOD_1_coeffs == <<1000, 2>>     \* [1, .002]
TEST_METHOD_2_Tmin == 300
TEST_METHOD_2_Tmax == 400
TEST_METHOD_2_coeffs == <<1000, 3>>     \* [1, .003]

----------------------------------------------------------------------------
(* Helpers on Python lists *)

Range(s) == {s[i] : i \in DOMAIN s}
Count(s, x) == Cardinality({i \in DOMAIN s : s[i] = x})
SeqsUpTo(S, n) == UNION {[1..k -> S] : k \in 0..n}
\* the lists over S without a repeated element, up to n long
ListsUpTo(S, n) == {l \in SeqsUpTo(S, n) : \A i, j \in DOMAIN l : l[i] = l[j] => i = j}

\* The element of a one-element set: Only({F(x) : x \in {e}}) is F(e) with e
\* evaluated once.
Only(S) == CHOOSE x \in S : TRUE

----------------------------------------------------------------------------
(* Inputs the operations are called with *)

Names == {TEST_METHOD_1, TEST_METHOD_2, "tab"}   \* method names a caller passes
TabNames == {"tab"}                                       \* names given to tabular datasets
Temperatures == {250, 320, 380, 500}                 \* temperatures a caller evaluates at

\* (Ts, properties) pairs passed to set_tabular_data.  The property is read
\* off a straight line through the points, as interp1d does without a kind.
Datasets ==
    { [Ts |-> <<300, 350>>, properties |-> <<1500, 1800>>],       \* plausible wherever it is evaluated
      [Ts |-> <<300, 350, 380>>, properties |-> <<1500, 1800>>],  \* lengths differ: interp1d raises
      [Ts |-> <<350, 300>>, properties |-> <<1800, 1500>>],       \* temperatures not increasing
      [Ts |-> <<300, 350>>, properties |-> <<-1000, 1000>>] }     \* implausible at 300 K and below 325 K

\* The user_methods argument: a str, a list of different names up to
\* MaxUserLen long ("tab" may not be registered yet), a list that repeats a
\* name, or a list with a name no method has
UserMethodArgs ==
    { [kind |-> "str", s |-> n] : n \in {TEST_METHOD_1} }
      \cup { [kind |-> "list", l |-> l] :
                l \in ListsUpTo(Names, MaxUserLen)
                         \cup {<<TEST_METHOD_1, TEST_METHOD_1>>, <<"bogus">>} }

\* Property values asked of solve_prop: attained by Test method 1 at 250 K,
\* lying in the jump between the two methods at 300 K, above every method,
\* and implausible
Goals == {1500, 1700, 5000, -5}

----------------------------------------------------------------------------
(* TDependentProperty.load_all_methods: what construction with a CASRN sets *)

CASRNs == {"67-56-1", ""}

load_all_methods(cas) ==
    LET has1 == cas \in {"7732-18-5", "67-56-1", "64-17-5"}
        has2 == cas \in {"67-56-1"}
        methods == (IF has1 THEN {TEST_METHOD_1} ELSE {}) \cup (IF has2 THEN {TEST_METHOD_2} ELSE {})
        Tmins == (IF has1 THEN {TEST_METHOD_1_Tmin} ELSE {}) \cup (IF has2 THEN {TEST_METHOD_2_Tmin} ELSE {})
        Tmaxs == (IF has1 THEN {TEST_METHOD_1_Tmax} ELSE {}) \cup (IF has2 THEN {TEST_METHOD_2_Tmax} ELSE {})
    IN [ all_methods |-> methods,
         Tmin |-> IF Tmins # {} /\ Tmaxs # {}
                  THEN CHOOSE t \in Tmins : \A u \in Tmins : t <= u ELSE Unset,
         Tmax |-> IF Tmins # {} /\ Tmaxs # {}
                  THEN CHOOSE t \in Tmaxs : \A u \in Tmaxs : t >= u ELSE Unset ]

----------------------------------------------------------------------------
(* TDependentProperty.test_property_validity *)

\* the two bounds themselves rejected
test_property_validity_exclusive(prop) ==
    IF prop <= property_min THEN FALSE
    ELSE IF prop >= property_max THEN FALSE
    ELSE TRUE

\* for a float
test_property_validity(prop) ==
    IF prop < property_min THEN FALSE
    ELSE IF prop > property_max THEN FALSE
    ELSE TRUE

\* for a Python number [complex, re, im]: isinstance(prop, complex) is tested
\* first, whatever the imaginary part
test_property_validity_number(prop) ==
    IF prop.complex THEN FALSE ELSE test_property_validity(prop.re)

(* TDependentProperty.test_method_validity.  The attributes TEST_METHOD_n_Tmin *)
(* exist only when load_all_methods loaded method n; reading a missing one     *)
(* raises, as does a name that is neither built in nor a stored dataset.       *)

test_method_validity_raises(m) ==
    IF m = TEST_METHOD_1 THEN TEST_METHOD_1 \notin load_all_methods(CASRN).all_methods
    ELSE IF m = TEST_METHOD_2 THEN TEST_METHOD_2 \notin load_all_methods(CASRN).all_methods
    ELSE m \notin DOMAIN tabular_data

\* the windows of the built-in methods without their end points
test_method_validity_open(T, m) ==
    IF m = TEST_METHOD_1 THEN ~(T <= TEST_METHOD_1_Tmin \/ T >= TEST_METHOD_1_Tmax)
    ELSE IF m = TEST_METHOD_2 THEN ~(T <= TEST_METHOD_2_Tmin \/ T >= TEST_METHOD_2_Tmax)
    ELSE IF ~tabular_extrapolation_permitted
         THEN LET Ts == tabular_data[m].Ts IN ~(T < Ts[1] \/ T > Ts[Len(Ts)])
         ELSE TRUE

\* a tabular method valid everywhere, whatever tabular_extrapolation_permitted
test_method_validity_any_T(T, m) ==
    IF m = TEST_METHOD_1 THEN ~(T < TEST_METHOD_1_Tmin \/ T > TEST_METHOD_1_Tmax)
    ELSE IF m = TEST_METHOD_2 THEN ~(T < TEST_METHOD_2_Tmin \/ T > TEST_METHOD_2_Tmax)
    ELSE TRUE

test_method_validity(T, m) ==
    IF m = TEST_METHOD_1 THEN ~(T < TEST_METHOD_1_Tmin \/ T > TEST_METHOD_1_Tmax)
    ELSE IF m = TEST_METHOD_2 THEN ~(T < TEST_METHOD_2_Tmin \/ T > TEST_METHOD_2_Tmax)
    ELSE IF ~tabular_extrapolation_permitted
         THEN LET Ts == tabular_data[m].Ts IN ~(T < Ts[1] \/ T > Ts[Len(Ts)])
         ELSE TRUE

----------------------------------------------------------------------------
(* TDependentProperty.select_valid_methods: [raised, err, list].  The list  *)
(* operations remove and index raise ValueError, test_method_validity an    *)
(* Exception.                                                               *)

select_valid_methods(T) ==
    LET \* considered_methods.remove(i) for each user method: ValueError when
        \* the list holds fewer copies of i than user_methods does
        removeRaises ==
            ~forced /\ \E i \in Range(user_methods) :
                          Count(user_methods, i) > (IF i \in all_methods THEN 1 ELSE 0)
        rest == IF forced THEN {} ELSE all_methods \ Range(user_methods)
        \* self.ranked_methods.index(i): ValueError for a name without a rank
        indexRaises == \E i \in rest : i \notin Range(ranked_methods)
        sorted_methods == user_methods \o SelectSeq(ranked_methods, LAMBDA m : m \in rest)
        validityRaises == \E m \in Range(sorted_methods) : test_method_validity_raises(m)
    IN IF removeRaises \/ indexRaises
       THEN [raised |-> TRUE, err |-> "ValueError", list |-> <<>>]
       ELSE IF validityRaises
       THEN [raised |-> TRUE, err |-> "Exception", list |-> <<>>]
       ELSE [raised |-> FALSE, err |-> "",
             list |-> SelectSeq(sorted_methods, LAMBDA m : test_method_validity(T, m))]

----------------------------------------------------------------------------
(* scipy.interpolate.interp1d as interpolate uses it.  An interpolator is   *)
(* the data it was fitted to; constructing one raises ValueError when x and *)
(* y differ in length.                                                      *)

interp1d_raises(xs, ys) == Len(xs) # Len(ys)

\* Evaluation of interp1d(xs, ys, fill_value='extrapolate'): the straight line
\* through the two samples around x, the outermost two outside the samples.
interp1d_linear(xs, ys, x) ==
    LET n == Len(xs)
        i == IF x <= xs[1] THEN 1
             ELSE IF x >= xs[n] THEN n - 1
             ELSE CHOOSE k \in 1..(n - 1) : xs[k] <= x /\ x < xs[k + 1]
    IN ys[i] + ((ys[i + 1] - ys[i]) * (x - xs[i])) \div (xs[i + 1] - xs[i])

\* interp1d(xs, ys, kind='cubic') keeps bounds_error: a query outside the
\* samples it was fitted to raises ValueError.
interp1d_cubic_raises(xs, x) == x < xs[1] \/ x > xs[Len(xs)]

\* a \div b for a divisor of either sign
Div(a, b) == IF b < 0 THEN (-a) \div (-b) ELSE a \div b

\* Evaluation of interp1d(xs, ys, kind='cubic') inside the samples: a cubic
\* through the samples, exact at every sample.  The cubic is the one through
\* the four samples around x, each term rounded down.
interp1d_cubic(xs, ys, x) ==
    LET n == Len(xs)
        i == IF x >= xs[n] THEN n - 1
             ELSE CHOOSE k \in 1..(n - 1) : xs[k] <= x /\ x < xs[k + 1]
        s == IF i - 1 < 1 THEN 1 ELSE IF i - 1 > n - 3 THEN n - 3 ELSE i - 1
        term(j) ==
            LET o == (s..(s + 3)) \ {j}
                k1 == CHOOSE k \in o : TRUE
                k2 == CHOOSE k \in o \ {k1} : TRUE
                k3 == CHOOSE k \in o \ {k1, k2} : TRUE
            IN Div(ys[j] * ((x - xs[k1]) * (x - xs[k2]) * (x - xs[k3])),
                   (xs[j] - xs[k1]) * (xs[j] - xs[k2]) * (xs[j] - xs[k3]))
    IN term(s) + term(s + 1) + term(s + 2) + term(s + 3)

\* The functions a user assigns to interpolation_T, interpolation_property
\* and interpolation_property_inv, by name: a shift to degrees Celsius for the
\* temperature, doubling and halving for the property.
transform(f, x) ==
    IF f = "celsius" THEN x - 273
    ELSE IF f = "double" THEN 2 * x
    ELSE IF f = "half" THEN x \div 2
    ELSE x

(* TDependentProperty.interpolate, started with the interpolator cache      *)
(* `cache`: [raised, err, value, tool, interpolators].  A cache entry is    *)
(* the data the pair of interpolators was fitted to and whether the pair    *)
(* has a spline.  Calling None as the inverse transform is a TypeError.     *)

\* the cache key of a dataset under the transforms now set
interpolators_key(name) ==
    <<name, interpolation_T, interpolation_property, interpolation_property_inv>>

\* every call fits new interpolators
cached_never(key, cache) == FALSE

\* whether the pair is loaded from the cache
cached(key, cache) == key \in DOMAIN cache

\* the pair fitted to a stored dataset under the transforms now set
fit(stored) ==
    [Ts |-> IF interpolation_T # None
            THEN [i \in DOMAIN stored.Ts |-> transform(interpolation_T, stored.Ts[i])]
            ELSE stored.Ts,
     properties |-> IF interpolation_property # None
                    THEN [i \in DOMAIN stored.properties |->
                             transform(interpolation_property, stored.properties[i])]
                    ELSE stored.properties,
     spline |-> Len(stored.properties) >= 5]

\* the extrapolator also at the first and the last sampled temperature
use_extrapolator_at_ends(T, Ts, spline) == T <= Ts[1] \/ T >= Ts[Len(Ts)] \/ ~spline

\* the extrapolator whatever the pair holds
use_extrapolator_always(T, Ts, spline) == TRUE

\* the choice of the tool, Ts being the stored temperatures
use_extrapolator(T, Ts, spline) == T < Ts[1] \/ T > Ts[Len(Ts)] \/ ~spline

\* the temperature the tool is called with
query(T) == IF interpolation_T # None THEN transform(interpolation_T, T) ELSE T

interpolate(T, name, cache) ==
    LET key == interpolators_key(name)
        stored == tabular_data[name]
        hit == cached(key, cache)
        built == fit(stored)
        buildRaises == ~hit /\ interp1d_raises(built.Ts, built.properties)
        pair == IF hit THEN cache[key] ELSE built
        cache2 == IF hit THEN cache
                  ELSE [k \in DOMAIN cache \cup {key} |-> IF k = key THEN built ELSE cache[k]]
        useExtrapolator == use_extrapolator(T, stored.Ts, pair.spline)
        tool == IF useExtrapolator THEN "extrapolator" ELSE "spline"
        x == query(T)
        prop == IF useExtrapolator THEN interp1d_linear(pair.Ts, pair.properties, x)
                ELSE interp1d_cubic(pair.Ts, pair.properties, x)
    IN IF buildRaises
       THEN [raised |-> TRUE, err |-> "ValueError", value |-> 0, tool |-> None,
             interpolators |-> cache]
       ELSE IF ~useExtrapolator /\ interp1d_cubic_raises(pair.Ts, x)
       THEN [raised |-> TRUE, err |-> "ValueError", value |-> 0, tool |-> tool,
             interpolators |-> cache2]
       ELSE IF interpolation_property # None /\ interpolation_property_inv = None
       THEN [raised |-> TRUE, err |-> "TypeError", value |-> 0, tool |-> tool,
             interpolators |-> cache2]
       ELSE [raised |-> FALSE, err |-> "",
             value |-> IF interpolation_property # None
                       THEN transform(interpolation_property_inv, prop) ELSE prop,
             tool |-> tool, interpolators |-> cache2]

(* TDependentProperty.calculate: [raised, value, interpolators].  A name    *)
(* that matches no branch leaves prop unbound, which raises.                *)

calculate(T, m, cache) ==
    IF m = TEST_METHOD_1
    THEN IF TEST_METHOD_1 \in load_all_methods(CASRN).all_methods
         THEN [raised |-> FALSE, value |-> TEST_METHOD_1_coeffs[1] + TEST_METHOD_1_coeffs[2] * T,
               interpolators |-> cache]
         ELSE [raised |-> TRUE, value |-> 0, interpolators |-> cache]
    ELSE IF m = TEST_METHOD_2
    THEN IF TEST_METHOD_2 \in load_all_methods(CASRN).all_methods
         THEN [raised |-> FALSE, value |-> TEST_METHOD_2_coeffs[1] + TEST_METHOD_2_coeffs[2] * T,
               interpolators |-> cache]
         ELSE [raised |-> TRUE, value |-> 0, interpolators |-> cache]
    ELSE IF m \in DOMAIN tabular_data THEN interpolate(T, m, cache)
    ELSE [raised |-> TRUE, value |-> 0, interpolators |-> cache]

----------------------------------------------------------------------------
(* TDependentProperty.T_dependent_property(T), started with active method   *)
(* m0, ranked list svm0 and interpolator cache cache0.  The result carries  *)
(* the three attributes as the call leaves them and what the call returned: *)
(* kind "value" (value, computed by `by` on `path`), "None", or "raise".    *)
(* `tried` lists the methods whose calculation the full path attempted.     *)

\* the loop without the plausibility check on the calculated value
RECURSIVE TryMethods_no_validity(_, _, _, _, _)
TryMethods_no_validity(T, list, i, cache, m0) ==
    IF i > Len(list)
    THEN [kind |-> "None", value |-> 0, by |-> None, tried |-> list, method |-> m0,
          interpolators |-> cache]
    ELSE Only({ IF ~c.raised
                THEN [kind |-> "value", value |-> c.value, by |-> list[i],
                      tried |-> SubSeq(list, 1, i), method |-> list[i],
                      interpolators |-> c.interpolators]
                ELSE TryMethods_no_validity(T, list, i + 1, c.interpolators, m0)
              : c \in {calculate(T, list[i], cache)} })

\* the loop without the except clause: a calculation that raises ends the call
RECURSIVE TryMethods_no_except(_, _, _, _, _)
TryMethods_no_except(T, list, i, cache, m0) ==
    IF i > Len(list)
    THEN [kind |-> "None", value |-> 0, by |-> None, tried |-> list, method |-> m0,
          interpolators |-> cache]
    ELSE Only({ IF c.raised
                THEN [kind |-> "raise", value |-> 0, by |-> None,
                      tried |-> SubSeq(list, 1, i), method |-> m0,
                      interpolators |-> c.interpolators]
                ELSE IF test_property_validity(c.value)
                THEN [kind |-> "value", value |-> c.value, by |-> list[i],
                      tried |-> SubSeq(list, 1, i), method |-> list[i],
                      interpolators |-> c.interpolators]
                ELSE TryMethods_no_except(T, list, i + 1, c.interpolators, m0)
              : c \in {calculate(T, list[i], cache)} })

\* the loop clearing the active method when no method succeeds
RECURSIVE TryMethods_clear_on_None(_, _, _, _, _)
TryMethods_clear_on_None(T, list, i, cache, m0) ==
    IF i > Len(list)
    THEN [kind |-> "None", value |-> 0, by |-> None, tried |-> list, method |-> None,
          interpolators |-> cache]
    ELSE Only({ IF ~c.raised /\ test_property_validity(c.value)
                THEN [kind |-> "value", value |-> c.value, by |-> list[i],
                      tried |-> SubSeq(list, 1, i), method |-> list[i],
                      interpolators |-> c.interpolators]
                ELSE TryMethods_clear_on_None(T, list, i + 1, c.interpolators, m0)
              : c \in {calculate(T, list[i], cache)} })

RECURSIVE TryMethods(_, _, _, _, _)
TryMethods(T, list, i, cache, m0) ==
    IF i > Len(list)
    THEN [kind |-> "None", value |-> 0, by |-> None, tried |-> list, method |-> m0,
          interpolators |-> cache]
    ELSE Only({ IF ~c.raised /\ test_property_validity(c.value)
                THEN [kind |-> "value", value |-> c.value, by |-> list[i],
                      tried |-> SubSeq(list, 1, i), method |-> list[i],
                      interpolators |-> c.interpolators]
                ELSE TryMethods(T, list, i + 1, c.interpolators, m0)
              : c \in {calculate(T, list[i], cache)} })

\* the part after the optimistic track with an error of select_valid_methods
\* swallowed
full_path_swallow(T, m0, svm0, cache) ==
    Only({ IF sel.raised
           THEN [kind |-> "None", err |-> "", value |-> 0, by |-> None, path |-> "full",
                 tried |-> <<>>, method |-> m0, sorted_valid_methods |-> svm0,
                 interpolators |-> cache]
           ELSE Only({ [kind |-> full.kind, err |-> "", value |-> full.value, by |-> full.by,
                        path |-> "full", tried |-> full.tried, method |-> full.method,
                        sorted_valid_methods |-> sel.list,
                        interpolators |-> full.interpolators]
                     : full \in {TryMethods(T, sel.list, 1, cache, m0)} })
         : sel \in {select_valid_methods(T)} })

\* the part after the optimistic track
full_path(T, m0, svm0, cache) ==
    Only({ IF sel.raised
           THEN [kind |-> "raise", err |-> sel.err, value |-> 0, by |-> None, path |-> "full",
                 tried |-> <<>>, method |-> m0, sorted_valid_methods |-> svm0,
                 interpolators |-> cache]
           ELSE Only({ [kind |-> full.kind, err |-> "", value |-> full.value, by |-> full.by,
                        path |-> "full", tried |-> full.tried, method |-> full.method,
                        sorted_valid_methods |-> sel.list,
                        interpolators |-> full.interpolators]
                     : full \in {TryMethods(T, sel.list, 1, cache, m0)} })
         : sel \in {select_valid_methods(T)} })

\* the optimistic track without the validity test of the active method at T
T_dependent_property_no_recheck(T, m0, svm0, cache0) ==
    IF m0 # None
    THEN Only({ IF ~fast.raised /\ test_property_validity(fast.value)
                THEN [kind |-> "value", err |-> "", value |-> fast.value, by |-> m0,
                      path |-> "fast", tried |-> <<>>, method |-> m0,
                      sorted_valid_methods |-> svm0, interpolators |-> fast.interpolators]
                ELSE full_path(T, m0, svm0, fast.interpolators)
              : fast \in {calculate(T, m0, cache0)} })
    ELSE full_path(T, m0, svm0, cache0)

\* without the optimistic track: the ranked list is rebuilt at every call
T_dependent_property_no_fast(T, m0, svm0, cache0) ==
    full_path(T, m0, svm0, cache0)

T_dependent_property(T, m0, svm0, cache0) ==
    IF m0 # None /\ test_method_validity_raises(m0)
    THEN [kind |-> "raise", err |-> "Exception", value |-> 0, by |-> None, path |-> "fast",
          tried |-> <<>>, method |-> m0, sorted_valid_methods |-> svm0,
          interpolators |-> cache0]
    ELSE IF m0 # None /\ test_method_validity(T, m0)
    THEN Only({ IF ~fast.raised /\ test_property_validity(fast.value)
                THEN [kind |-> "value", err |-> "", value |-> fast.value, by |-> m0,
                      path |-> "fast", tried |-> <<>>, method |-> m0,
                      sorted_valid_methods |-> svm0, interpolators |-> fast.interpolators]
                ELSE full_path(T, m0, svm0, fast.interpolators)
              : fast \in {calculate(T, m0, cache0)} })
    ELSE full_path(T, m0, svm0, cache0)

----------------------------------------------------------------------------
(* TDependentProperty.set_user_methods(arg, f) on an instance whose         *)
(* all_methods is am, active method m0 and ranked list svm0: the four       *)
(* attributes as the call leaves them, and whether it raised.  The          *)
(* attributes user_methods and forced are assigned before the checks.       *)

str_to_list(arg) == IF arg.kind = "str" THEN <<arg.s>> ELSE arg.l

\* without the check of forced against an empty list
set_user_methods_no_empty_check(arg, f, am, m0, svm0) ==
    LET um == str_to_list(arg)
    IN IF Range(um) \ am # {}
       THEN [raised |-> TRUE, err |-> "method not available",
             user_methods |-> um, forced |-> f, method |-> m0, sorted_valid_methods |-> svm0]
       ELSE [raised |-> FALSE, err |-> "",
             user_methods |-> um, forced |-> f, method |-> None, sorted_valid_methods |-> <<>>]

\* without the reset of method and sorted_valid_methods
set_user_methods_no_reset(arg, f, am, m0, svm0) ==
    LET um == str_to_list(arg)
    IN IF Range(um) \ am # {}
       THEN [raised |-> TRUE, err |-> "method not available",
             user_methods |-> um, forced |-> f, method |-> m0, sorted_valid_methods |-> svm0]
       ELSE IF um = <<>> /\ f
       THEN [raised |-> TRUE, err |-> "forced without methods",
             user_methods |-> um, forced |-> f, method |-> m0, sorted_valid_methods |-> svm0]
       ELSE [raised |-> FALSE, err |-> "",
             user_methods |-> um, forced |-> f, method |-> m0, sorted_valid_methods |-> svm0]

set_user_methods(arg, f, am, m0, svm0) ==
    LET um == str_to_list(arg)
    IN IF Range(um) \ am # {}
       THEN [raised |-> TRUE, err |-> "method not available",
             user_methods |-> um, forced |-> f, method |-> m0, sorted_valid_methods |-> svm0]
       ELSE IF um = <<>> /\ f
       THEN [raised |-> TRUE, err |-> "forced without methods",
             user_methods |-> um, forced |-> f, method |-> m0, sorted_valid_methods |-> svm0]
       ELSE [raised |-> FALSE, err |-> "",
             user_methods |-> um, forced |-> f, method |-> None, sorted_valid_methods |-> <<>>]

(* TDependentProperty.set_tabular_data(Ts, properties, name, check_properties) *)

AutoNames == <<"Tabular data series #0", "Tabular data series #1", "Tabular data series #2">>

increasing(Ts) == \A i \in 1..(Len(Ts) - 1) : Ts[i + 1] > Ts[i]

\* the dataset stored and the active method dropped before the order of Ts
\* is checked
set_tabular_data_store_first(Ts, properties, name, check_properties) ==
    LET nm == IF name = None THEN AutoNames[Cardinality(DOMAIN tabular_data) + 1] ELSE name
        td == [n \in DOMAIN tabular_data \cup {nm} |->
                  IF n = nm THEN [Ts |-> Ts, properties |-> properties] ELSE tabular_data[n]]
        sum == set_user_methods([kind |-> "list", l |-> <<nm>> \o user_methods], forced,
                                all_methods \cup {nm}, None, sorted_valid_methods)
    IN IF check_properties /\ \E i \in DOMAIN properties : ~test_property_validity(properties[i])
       THEN [raised |-> TRUE, err |-> "properties not feasible", name |-> nm,
             tabular_data |-> tabular_data, all_methods |-> all_methods,
             user_methods |-> user_methods, forced |-> forced, method |-> method,
             sorted_valid_methods |-> sorted_valid_methods]
       ELSE IF ~increasing(Ts)
       THEN [raised |-> TRUE, err |-> "temperatures not increasing", name |-> nm,
             tabular_data |-> td, all_methods |-> all_methods,
             user_methods |-> user_methods, forced |-> forced, method |-> None,
             sorted_valid_methods |-> sorted_valid_methods]
       ELSE [raised |-> sum.raised, err |-> sum.err, name |-> nm,
             tabular_data |-> td, all_methods |-> all_methods \cup {nm},
             user_methods |-> sum.user_methods, forced |-> sum.forced, method |-> sum.method,
             sorted_valid_methods |-> sum.sorted_valid_methods]

\* the properties checked whatever check_properties says
set_tabular_data_always_check(Ts, properties, name, check_properties) ==
    LET nm == IF name = None THEN AutoNames[Cardinality(DOMAIN tabular_data) + 1] ELSE name
        td == [n \in DOMAIN tabular_data \cup {nm} |->
                  IF n = nm THEN [Ts |-> Ts, properties |-> properties] ELSE tabular_data[n]]
        sum == set_user_methods([kind |-> "list", l |-> <<nm>> \o user_methods], forced,
                                all_methods \cup {nm}, None, sorted_valid_methods)
    IN IF \E i \in DOMAIN properties : ~test_property_validity(properties[i])
       THEN [raised |-> TRUE, err |-> "properties not feasible", name |-> nm,
             tabular_data |-> tabular_data, all_methods |-> all_methods,
             user_methods |-> user_methods, forced |-> forced, method |-> method,
             sorted_valid_methods |-> sorted_valid_methods]
       ELSE IF ~increasing(Ts)
       THEN [raised |-> TRUE, err |-> "temperatures not increasing", name |-> nm,
             tabular_data |-> tabular_data, all_methods |-> all_methods,
             user_methods |-> user_methods, forced |-> forced, method |-> method,
             sorted_valid_methods |-> sorted_valid_methods]
       ELSE [raised |-> sum.raised, err |-> sum.err, name |-> nm,
             tabular_data |-> td, all_methods |-> all_methods \cup {nm},
             user_methods |-> sum.user_methods, forced |-> sum.forced, method |-> sum.method,
             sorted_valid_methods |-> sum.sorted_valid_methods]

\* the name appended to user_methods instead of inserted at index 0
set_tabular_data_append(Ts, properties, name, check_properties) ==
    LET nm == IF name = None THEN AutoNames[Cardinality(DOMAIN tabular_data) + 1] ELSE name
        td == [n \in DOMAIN tabular_data \cup {nm} |->
                  IF n = nm THEN [Ts |-> Ts, properties |-> properties] ELSE tabular_data[n]]
        sum == set_user_methods([kind |-> "list", l |-> user_methods \o <<nm>>], forced,
                                all_methods \cup {nm}, None, sorted_valid_methods)
    IN IF check_properties /\ \E i \in DOMAIN properties : ~test_property_validity(properties[i])
       THEN [raised |-> TRUE, err |-> "properties not feasible", name |-> nm,
             tabular_data |-> tabular_data, all_methods |-> all_methods,
             user_methods |-> user_methods, forced |-> forced, method |-> method,
             sorted_valid_methods |-> sorted_valid_methods]
       ELSE IF ~increasing(Ts)
       THEN [raised |-> TRUE, err |-> "temperatures not increasing", name |-> nm,
             tabular_data |-> tabular_data, all_methods |-> all_methods,
             user_methods |-> user_methods, forced |-> forced, method |-> method,
             sorted_valid_methods |-> sorted_valid_methods]
       ELSE [raised |-> sum.raised, err |-> sum.err, name |-> nm,
             tabular_data |-> td, all_methods |-> all_methods \cup {nm},
             user_methods |-> sum.user_methods, forced |-> sum.forced, method |-> sum.method,
             sorted_valid_methods |-> sum.sorted_valid_methods]

set_tabular_data(Ts, properties, name, check_properties) ==
    LET nm == IF name = None THEN AutoNames[Cardinality(DOMAIN tabular_data) + 1] ELSE name
        td == [n \in DOMAIN tabular_data \cup {nm} |->
                  IF n = nm THEN [Ts |-> Ts, properties |-> properties] ELSE tabular_data[n]]
        sum == set_user_methods([kind |-> "list", l |-> <<nm>> \o user_methods], forced,
                                all_methods \cup {nm}, None, sorted_valid_methods)
    IN IF check_properties /\ \E i \in DOMAIN properties : ~test_property_validity(properties[i])
       THEN [raised |-> TRUE, err |-> "properties not feasible", name |-> nm,
             tabular_data |-> tabular_data, all_methods |-> all_methods,
             user_methods |-> user_methods, forced |-> forced, method |-> method,
             sorted_valid_methods |-> sorted_valid_methods]
       ELSE IF ~increasing(Ts)
       THEN [raised |-> TRUE, err |-> "temperatures not increasing", name |-> nm,
             tabular_data |-> tabular_data, all_methods |-> all_methods,
             user_methods |-> user_methods, forced |-> forced, method |-> method,
             sorted_valid_methods |-> sorted_valid_methods]
       ELSE [raised |-> sum.raised, err |-> sum.err, name |-> nm,
             tabular_data |-> td, all_methods |-> all_methods \cup {nm},
             user_methods |-> sum.user_methods, forced |-> sum.forced, method |-> sum.method,
             sorted_valid_methods |-> sum.sorted_valid_methods]

----------------------------------------------------------------------------
(* TDependentProperty.solve_prop(goal, reset_method).  st is the record of  *)
(* the attributes method, sorted_valid_methods and interpolators that the   *)
(* evaluations change, with the list of the evaluations made so far in      *)
(* trials: the temperature, the active method the evaluation started with,  *)
(* and what T_dependent_property returned.                                  *)

trial(T, m0, r) ==
    [T |-> T, method_before |-> m0, kind |-> r.kind, value |-> r.value, by |-> r.by,
     path |-> r.path]

\* the closure without `self.method = None`, whatever reset_method is
error_no_reset(T, goal, reset_method, st) ==
    Only({ LET st2 == [method |-> r.method, sorted_valid_methods |-> r.sorted_valid_methods,
                       interpolators |-> r.interpolators,
                       trials |-> Append(st.trials, trial(T, st.method, r))]
           IN IF r.kind = "raise" THEN [raised |-> TRUE, err |-> r.err, f |-> 0, st |-> st2]
              ELSE IF r.kind = "None"
                   THEN [raised |-> TRUE, err |-> "TypeError", f |-> 0, st |-> st2]
              ELSE [raised |-> FALSE, err |-> "", f |-> r.value - goal, st |-> st2]
         : r \in {T_dependent_property(T, st.method, st.sorted_valid_methods,
                                       st.interpolators)} })

\* The closure error(T) of solve_prop: [raised, err, f, st].  None - goal is
\* a TypeError.
error(T, goal, reset_method, st) ==
    Only({ LET st2 == [method |-> r.method, sorted_valid_methods |-> r.sorted_valid_methods,
                       interpolators |-> r.interpolators,
                       trials |-> Append(st.trials,
                                         trial(T, IF reset_method THEN None ELSE st.method, r))]
           IN IF r.kind = "raise" THEN [raised |-> TRUE, err |-> r.err, f |-> 0, st |-> st2]
              ELSE IF r.kind = "None"
                   THEN [raised |-> TRUE, err |-> "TypeError", f |-> 0, st |-> st2]
              ELSE [raised |-> FALSE, err |-> "", f |-> r.value - goal, st |-> st2]
         : r \in {T_dependent_property(T, IF reset_method THEN None ELSE st.method,
                                       st.sorted_valid_methods, st.interpolators)} })

Abs(x) == IF x < 0 THEN -x ELSE x

\* scipy.optimize.brenth(error, a, b) as a bracketing root finder on whole
\* kelvins: ValueError unless f(a) and f(b) differ in sign, then trial points
\* inside the bracket, which keeps a sign change, until a root is hit or the
\* bracket is 1 K wide.  The trial point is the midpoint.
\* the half without the sign change kept
RECURSIVE bracket_wrong_half(_, _, _, _, _, _, _)
bracket_wrong_half(lo, hi, flo, fhi, goal, reset_method, st) ==
    IF hi - lo <= 1
    THEN [raised |-> FALSE, err |-> "", T |-> IF Abs(flo) <= Abs(fhi) THEN lo ELSE hi, st |-> st]
    ELSE Only({ IF e.raised THEN [raised |-> TRUE, err |-> e.err, T |-> 0, st |-> e.st]
                ELSE IF e.f = 0 THEN [raised |-> FALSE, err |-> "", T |-> mid, st |-> e.st]
                ELSE IF (e.f < 0) = (flo < 0)
                     THEN bracket_wrong_half(lo, mid, flo, e.f, goal, reset_method, e.st)
                     ELSE bracket_wrong_half(mid, hi, e.f, fhi, goal, reset_method, e.st)
              : mid \in {(lo + hi) \div 2}, e \in {error((lo + hi) \div 2, goal, reset_method, st)} })

RECURSIVE bracket(_, _, _, _, _, _, _)
bracket(lo, hi, flo, fhi, goal, reset_method, st) ==
    IF hi - lo <= 1
    THEN [raised |-> FALSE, err |-> "", T |-> IF Abs(flo) <= Abs(fhi) THEN lo ELSE hi, st |-> st]
    ELSE Only({ IF e.raised THEN [raised |-> TRUE, err |-> e.err, T |-> 0, st |-> e.st]
                ELSE IF e.f = 0 THEN [raised |-> FALSE, err |-> "", T |-> mid, st |-> e.st]
                ELSE IF (e.f < 0) = (flo < 0)
                     THEN bracket(mid, hi, e.f, fhi, goal, reset_method, e.st)
                     ELSE bracket(lo, mid, flo, e.f, goal, reset_method, e.st)
              : mid \in {(lo + hi) \div 2}, e \in {error((lo + hi) \div 2, goal, reset_method, st)} })

brenth(goal, reset_method, a, b, st) ==
    Only({ IF ea.raised THEN [raised |-> TRUE, err |-> ea.err, T |-> 0, st |-> ea.st]
           ELSE Only({ IF eb.raised THEN [raised |-> TRUE, err |-> eb.err, T |-> 0, st |-> eb.st]
                       ELSE IF ea.f * eb.f > 0
                            THEN [raised |-> TRUE, err |-> "ValueError", T |-> 0, st |-> eb.st]
                       ELSE IF ea.f = 0 THEN [raised |-> FALSE, err |-> "", T |-> a, st |-> eb.st]
                       ELSE IF eb.f = 0 THEN [raised |-> FALSE, err |-> "", T |-> b, st |-> eb.st]
                       ELSE bracket(a, b, ea.f, eb.f, goal, reset_method, eb.st)
                     : eb \in {error(b, goal, reset_method, ea.st)} })
         : ea \in {error(a, goal, reset_method, st)} })

\* without the plausibility check of the goal
solve_prop_goal_unchecked(goal, reset_method, st) ==
    IF Tmin = Unset \/ Tmax = Unset
    THEN [raised |-> TRUE, err |-> "AttributeError", T |-> 0, st |-> st]
    ELSE Only({ IF b.raised /\ b.err = "ValueError"
                THEN [raised |-> TRUE, err |-> "not possible", T |-> 0, st |-> b.st]
                ELSE b
              : b \in {brenth(goal, reset_method, Tmin, Tmax, st)} })

\* without the except clause: the ValueError of brenth reaches the caller
solve_prop_no_except(goal, reset_method, st) ==
    IF Tmin = Unset \/ Tmax = Unset
    THEN [raised |-> TRUE, err |-> "AttributeError", T |-> 0, st |-> st]
    ELSE IF ~test_property_validity(goal)
    THEN [raised |-> TRUE, err |-> "not plausible", T |-> 0, st |-> st]
    ELSE brenth(goal, reset_method, Tmin, Tmax, st)

\* [raised, err, T, st]; a ValueError out of brenth is raised again as the
\* "not possible to calculate the desired value" Exception.  The class
\* attributes Tmin and Tmax are commented out, so on an instance whose
\* load_all_methods assigned none `self.Tmin is None` is an AttributeError;
\* nothing assigns None, so the Exception of that test is never raised.
solve_prop(goal, reset_method, st) ==
    IF Tmin = Unset \/ Tmax = Unset
    THEN [raised |-> TRUE, err |-> "AttributeError", T |-> 0, st |-> st]
    ELSE IF ~test_property_validity(goal)
    THEN [raised |-> TRUE, err |-> "not plausible", T |-> 0, st |-> st]
    ELSE Only({ IF b.raised /\ b.err = "ValueError"
                THEN [raised |-> TRUE, err |-> "not possible", T |-> 0, st |-> b.st]
                ELSE b
              : b \in {brenth(goal, reset_method, Tmin, Tmax, st)} })

----------------------------------------------------------------------------
(* TDependentProperty.calculate_derivative: scipy.misc.derivative(          *)
(* self.calculate, T, dx, n=order, order=2*order+1), the central difference *)
(* over 2*order+1 points, calculate being called at every point.  On whole  *)
(* kelvins the step is 1 K.  [raised, value, interpolators]                 *)

\* calculate at the temperatures Ts[1], Ts[2], ... in turn: [raised, values, interpolators]
RECURSIVE calculate_each(_, _, _, _, _)
calculate_each(Ts, i, m, cache, values) ==
    IF i > Len(Ts) THEN [raised |-> FALSE, values |-> values, interpolators |-> cache]
    ELSE Only({ IF c.raised THEN [raised |-> TRUE, values |-> values, interpolators |-> c.interpolators]
                ELSE calculate_each(Ts, i + 1, m, c.interpolators, Append(values, c.value))
              : c \in {calculate(Ts[i], m, cache)} })

calculate_derivative(T, m, order, cache) ==
    Only({ IF e.raised THEN [raised |-> TRUE, value |-> 0, interpolators |-> e.interpolators]
           ELSE [raised |-> FALSE,
                 value |-> IF order = 1
                           THEN Div(e.values[3] - e.values[1], 2)
                           ELSE Div(16 * e.values[4] + 16 * e.values[2] - e.values[5]
                                      - e.values[1] - 30 * e.values[3], 12),
                 interpolators |-> e.interpolators]
         : e \in {calculate_each(IF order = 1 THEN <<T - 1, T, T + 1>>
                                  ELSE <<T - 2, T - 1, T, T + 1, T + 2>>, 1, m, cache, <<>>)} })

(* TDependentProperty.T_dependent_property_derivative(T, order): kind       *)
(* "value" (value, computed by `by`), "None", or "raise"; `tried` lists the *)
(* methods whose derivative was attempted, `list` is the local list.        *)

\* the list stored as T_dependent_property stores it
local_list_stored(list) == list

\* self.sorted_valid_methods as the derivative and the integrals leave it:
\* the list of select_valid_methods is bound to a local name
local_list(list) == sorted_valid_methods

\* the loop with the plausibility check that T_dependent_property applies
RECURSIVE TryDerivatives_checked(_, _, _, _, _)
TryDerivatives_checked(T, order, list, i, cache) ==
    IF i > Len(list)
    THEN [kind |-> "None", value |-> 0, by |-> None, tried |-> list, interpolators |-> cache]
    ELSE Only({ IF ~c.raised /\ test_property_validity(c.value)
                THEN [kind |-> "value", value |-> c.value, by |-> list[i],
                      tried |-> SubSeq(list, 1, i), interpolators |-> c.interpolators]
                ELSE TryDerivatives_checked(T, order, list, i + 1, c.interpolators)
              : c \in {calculate_derivative(T, list[i], order, cache)} })

RECURSIVE TryDerivatives(_, _, _, _, _)
TryDerivatives(T, order, list, i, cache) ==
    IF i > Len(list)
    THEN [kind |-> "None", value |-> 0, by |-> None, tried |-> list, interpolators |-> cache]
    ELSE Only({ IF ~c.raised
                THEN [kind |-> "value", value |-> c.value, by |-> list[i],
                      tried |-> SubSeq(list, 1, i), interpolators |-> c.interpolators]
                ELSE TryDerivatives(T, order, list, i + 1, c.interpolators)
              : c \in {calculate_derivative(T, list[i], order, cache)} })

T_dependent_property_derivative(T, order, cache) ==
    Only({ IF sel.raised
           THEN [kind |-> "raise", err |-> sel.err, value |-> 0, by |-> None,
                 tried |-> <<>>, list |-> <<>>, interpolators |-> cache]
           ELSE Only({ [kind |-> r.kind, err |-> "", value |-> r.value, by |-> r.by,
                        tried |-> r.tried, list |-> sel.list,
                        interpolators |-> r.interpolators]
                     : r \in {TryDerivatives(T, order, sel.list, 1, cache)} })
         : sel \in {select_valid_methods(T)} })

(* TDependentProperty.calculate_integral and calculate_integral_over_T:     *)
(* scipy.integrate.quad of calculate, and of calculate(T)/T, from T1 to T2. *)
(* The quadrature is Simpson's rule on the two ends and the middle; the     *)
(* integrand over T is kept in units of 1E-6.                               *)

calculate_integral(T1, T2, m, cache) ==
    Only({ IF e.raised THEN [raised |-> TRUE, value |-> 0, interpolators |-> e.interpolators]
           ELSE [raised |-> FALSE,
                 value |-> Div((T2 - T1) * (e.values[1] + 4 * e.values[2] + e.values[3]), 6),
                 interpolators |-> e.interpolators]
         : e \in {calculate_each(<<T1, (T1 + T2) \div 2, T2>>, 1, m, cache, <<>>)} })

calculate_integral_over_T(T1, T2, m, cache) ==
    Only({ IF e.raised THEN [raised |-> TRUE, value |-> 0, interpolators |-> e.interpolators]
           ELSE [raised |-> FALSE,
                 value |-> Div((T2 - T1) * ( Div(1000 * e.values[1], T1)
                                             + 4 * Div(1000 * e.values[2], (T1 + T2) \div 2)
                                             + Div(1000 * e.values[3], T2) ), 6),
                 interpolators |-> e.interpolators]
         : e \in {calculate_each(<<T1, (T1 + T2) \div 2, T2>>, 1, m, cache, <<>>)} })

(* TDependentProperty.T_dependent_property_integral(T1, T2) and             *)
(* T_dependent_property_integral_over_T(T1, T2), as the derivative          *)

RECURSIVE TryIntegrals(_, _, _, _, _, _)
TryIntegrals(over_T, T1, T2, list, i, cache) ==
    IF i > Len(list)
    THEN [kind |-> "None", value |-> 0, by |-> None, tried |-> list, interpolators |-> cache]
    ELSE Only({ IF ~c.raised
                THEN [kind |-> "value", value |-> c.value, by |-> list[i],
                      tried |-> SubSeq(list, 1, i), interpolators |-> c.interpolators]
                ELSE TryIntegrals(over_T, T1, T2, list, i + 1, c.interpolators)
              : c \in {IF over_T THEN calculate_integral_over_T(T1, T2, list[i], cache)
                                 ELSE calculate_integral(T1, T2, list[i], cache)} })

\* the candidates taken from select_valid_methods at the upper limit
integral_candidates_at_T2(T1, T2) == select_valid_methods(T2)

\* the candidates of both integrals: select_valid_methods at the lower limit
integral_candidates(T1, T2) == select_valid_methods(T1)

T_dependent_property_integral(T1, T2, cache) ==
    Only({ IF sel.raised
           THEN [kind |-> "raise", err |-> sel.err, value |-> 0, by |-> None,
                 tried |-> <<>>, list |-> <<>>, interpolators |-> cache]
           ELSE Only({ [kind |-> r.kind, err |-> "", value |-> r.value, by |-> r.by,
                        tried |-> r.tried, list |-> sel.list,
                        interpolators |-> r.interpolators]
                     : r \in {TryIntegrals(FALSE, T1, T2, sel.list, 1, cache)} })
         : sel \in {integral_candidates(T1, T2)} })

T_dependent_property_integral_over_T(T1, T2, cache) ==
    Only({ IF sel.raised
           THEN [kind |-> "raise", err |-> sel.err, value |-> 0, by |-> None,
                 tried |-> <<>>, list |-> <<>>, interpolators |-> cache]
           ELSE Only({ [kind |-> r.kind, err |-> "", value |-> r.value, by |-> r.by,
                        tried |-> r.tried, list |-> sel.list,
                        interpolators |-> r.interpolators]
                     : r \in {TryIntegrals(TRUE, T1, T2, sel.list, 1, cache)} })
         : sel \in {integral_candidates(T1, T2)} })

----------------------------------------------------------------------------
(* TPDependentProperty.  The class leaves its built-in methods, their rank, *)
(* validity and calculation to the concrete property; two methods with a    *)
(* window in T and P stand for them.                                        *)

P_METHOD_1 == "P method 1"
P_METHOD_2 == "P method 2"
ranked_methods_P == <<P_METHOD_2, P_METHOD_1>>
builtin_methods_P == {P_METHOD_1, P_METHOD_2}

\* windows [Tmin, Tmax, Pmin, Pmax] of the two methods, pressures in bar
window_P(m) == IF m = P_METHOD_1 THEN <<200, 350, 1, 2>> ELSE <<300, 400, 1, 5>>

NamesP == {P_METHOD_1, P_METHOD_2, "tabP"}
TabNamesP == {"tabP"}
Conditions == {<<250, 1>>, <<320, 1>>, <<320, 3>>, <<500, 1>>}   \* (T, P) a caller evaluates at

\* (Ts, Ps, properties) passed to set_tabular_data_P; properties[j][i] is the
\* value at Ps[j], Ts[i]
DatasetsP ==
    { [Ts |-> <<300, 350>>, Ps |-> <<1, 3>>, properties |-> << <<1500, 1800>>, <<1600, 1900>> >>],
      [Ts |-> <<300, 350>>, Ps |-> <<1, 3>>, properties |-> << <<-1000, 1000>>, <<-1000, 1000>> >>],
      [Ts |-> <<300, 350>>, Ps |-> <<1, 3>>, properties |-> << <<1500, 1800>> >>],   \* a row is missing
      [Ts |-> <<300, 350>>, Ps |-> <<3, 1>>, properties |-> << <<1500, 1800>>, <<1600, 1900>> >>],
      [Ts |-> <<350, 300>>, Ps |-> <<1, 3>>, properties |-> << <<1800, 1500>>, <<1900, 1600>> >>] }

UserMethodArgsP ==
    { [kind |-> "str", s |-> n] : n \in {P_METHOD_1} }
      \cup { [kind |-> "list", l |-> l] :
                l \in ListsUpTo(NamesP, MaxUserLen)
                         \cup {<<P_METHOD_1, P_METHOD_1>>, <<"bogus">>} }

test_method_validity_P_raises(m) == m \notin builtin_methods_P /\ m \notin DOMAIN tabular_data

test_method_validity_P(T, P, m) ==
    IF m \in builtin_methods_P
    THEN LET w == window_P(m) IN ~(T < w[1] \/ T > w[2] \/ P < w[3] \/ P > w[4])
    ELSE IF ~tabular_extrapolation_permitted
         THEN LET Ts == tabular_data[m].Ts
                  Ps == tabular_data[m].Ps
              IN ~(T < Ts[1] \/ T > Ts[Len(Ts)] \/ P < Ps[1] \/ P > Ps[Len(Ps)])
         ELSE TRUE

(* scipy.interpolate.interp2d(xs, ys, zs): linear in both directions, the  *)
(* edge value outside the grid; ValueError when zs is not Len(ys) rows of   *)
(* Len(xs) values.                                                          *)

interp2d_raises(xs, ys, zs) == Len(zs) # Len(ys) \/ \E j \in DOMAIN zs : Len(zs[j]) # Len(xs)

clamp(x, lo, hi) == IF x < lo THEN lo ELSE IF x > hi THEN hi ELSE x

interp2d_linear(xs, ys, zs, x, y) ==
    LET xc == clamp(x, xs[1], xs[Len(xs)])
        yc == clamp(y, ys[1], ys[Len(ys)])
        rows == [j \in DOMAIN zs |-> interp1d_linear(xs, zs[j], xc)]
    IN interp1d_linear(ys, rows, yc)

(* TPDependentProperty.interpolate_P: [raised, err, value, query,           *)
(* interpolators], query being the (T, P) the tool is called with.  The     *)
(* transforms map a row of properties value by value, as numpy's functions  *)
(* do.                                                                      *)

interpolators_key_P(name) ==
    <<name, interpolation_T, interpolation_P, interpolation_property,
      interpolation_property_inv>>

\* the interpolators fitted to a stored dataset under the transforms now set
fit_P(stored) ==
    [Ts |-> IF interpolation_T # None
            THEN [i \in DOMAIN stored.Ts |-> transform(interpolation_T, stored.Ts[i])]
            ELSE stored.Ts,
     Ps |-> IF interpolation_P # None
            THEN [j \in DOMAIN stored.Ps |-> transform(interpolation_P, stored.Ps[j])]
            ELSE stored.Ps,
     properties |-> IF interpolation_property # None
                    THEN [j \in DOMAIN stored.properties |->
                            [i \in DOMAIN stored.properties[j] |->
                                transform(interpolation_property, stored.properties[j][i])]]
                    ELSE stored.properties,
     spline |-> Len(stored.properties) >= 5]

\* the condition the tool is called with: when interpolation_P is set, the
\* pressure is passed to interpolation_T; calling None is a TypeError
query_P_raises == interpolation_P # None /\ interpolation_T = None
query_P(T, P) ==
    [T |-> IF interpolation_T # None THEN transform(interpolation_T, T) ELSE T,
     P |-> IF interpolation_P # None THEN transform(interpolation_T, P) ELSE P]

interpolate_P(T, P, name, cache) ==
    LET key == interpolators_key_P(name)
        stored == tabular_data[name]
        hit == key \in DOMAIN cache
        built == fit_P(stored)
        buildRaises == ~hit /\ interp2d_raises(built.Ts, built.Ps, built.properties)
        pair == IF hit THEN cache[key] ELSE built
        cache2 == IF hit THEN cache
                  ELSE [k \in DOMAIN cache \cup {key} |-> IF k = key THEN built ELSE cache[k]]
        q == query_P(T, P)
        prop == interp2d_linear(pair.Ts, pair.Ps, pair.properties, q.T, q.P)
    IN IF buildRaises
       THEN [raised |-> TRUE, err |-> "ValueError", value |-> 0, query |-> q,
             interpolators |-> cache]
       ELSE IF query_P_raises
       THEN [raised |-> TRUE, err |-> "TypeError", value |-> 0, query |-> q,
             interpolators |-> cache2]
       ELSE IF interpolation_property # None /\ interpolation_property_inv = None
       THEN [raised |-> TRUE, err |-> "TypeError", value |-> 0, query |-> q,
             interpolators |-> cache2]
       ELSE [raised |-> FALSE, err |-> "",
             value |-> IF interpolation_property # None
                       THEN transform(interpolation_property_inv, prop) ELSE prop,
             query |-> q, interpolators |-> cache2]

calculate_P(T, P, m, cache) ==
    IF m = P_METHOD_1
    THEN [raised |-> FALSE, value |-> 1000 + 2 * T + 10 * P, interpolators |-> cache]
    ELSE IF m = P_METHOD_2
    THEN [raised |-> FALSE, value |-> 1000 + 3 * T + 10 * P, interpolators |-> cache]
    ELSE IF m \in DOMAIN tabular_data THEN interpolate_P(T, P, m, cache)
    ELSE [raised |-> TRUE, value |-> 0, interpolators |-> cache]

(* TPDependentProperty.select_valid_methods_P: [raised, err, list] *)

select_valid_methods_P(T, P) ==
    LET removeRaises ==
            ~forced_P /\ \E i \in Range(user_methods_P) :
                            Count(user_methods_P, i) > (IF i \in all_methods_P THEN 1 ELSE 0)
        rest == IF forced_P THEN {} ELSE all_methods_P \ Range(user_methods_P)
        indexRaises == \E i \in rest : i \notin Range(ranked_methods_P)
        sorted_methods == user_methods_P \o SelectSeq(ranked_methods_P, LAMBDA m : m \in rest)
        validityRaises == \E m \in Range(sorted_methods) : test_method_validity_P_raises(m)
    IN IF removeRaises \/ indexRaises
       THEN [raised |-> TRUE, err |-> "ValueError", list |-> <<>>]
       ELSE IF validityRaises
       THEN [raised |-> TRUE, err |-> "Exception", list |-> <<>>]
       ELSE [raised |-> FALSE, err |-> "",
             list |-> SelectSeq(sorted_methods, LAMBDA m : test_method_validity_P(T, P, m))]

(* TPDependentProperty.TP_dependent_property(T, P), as T_dependent_property *)

RECURSIVE TryMethodsP(_, _, _, _, _, _)
TryMethodsP(T, P, list, i, cache, m0) ==
    IF i > Len(list)
    THEN [kind |-> "None", value |-> 0, by |-> None, tried |-> list, method |-> m0,
          interpolators |-> cache]
    ELSE Only({ IF ~c.raised /\ test_property_validity(c.value)
                THEN [kind |-> "value", value |-> c.value, by |-> list[i],
                      tried |-> SubSeq(list, 1, i), method |-> list[i],
                      interpolators |-> c.interpolators]
                ELSE TryMethodsP(T, P, list, i + 1, c.interpolators, m0)
              : c \in {calculate_P(T, P, list[i], cache)} })

full_path_P(T, P, m0, svm0, cache) ==
    Only({ IF sel.raised
           THEN [kind |-> "raise", err |-> sel.err, value |-> 0, by |-> None, path |-> "full",
                 tried |-> <<>>, method |-> m0, sorted_valid_methods |-> svm0,
                 interpolators |-> cache]
           ELSE Only({ [kind |-> full.kind, err |-> "", value |-> full.value, by |-> full.by,
                        path |-> "full", tried |-> full.tried, method |-> full.method,
                        sorted_valid_methods |-> sel.list,
                        interpolators |-> full.interpolators]
                     : full \in {TryMethodsP(T, P, sel.list, 1, cache, m0)} })
         : sel \in {select_valid_methods_P(T, P)} })

TP_dependent_property(T, P, m0, svm0, cache0) ==
    IF m0 # None /\ test_method_validity_P_raises(m0)
    THEN [kind |-> "raise", err |-> "Exception", value |-> 0, by |-> None, path |-> "fast",
          tried |-> <<>>, method |-> m0, sorted_valid_methods |-> svm0,
          interpolators |-> cache0]
    ELSE IF m0 # None /\ test_method_validity_P(T, P, m0)
    THEN Only({ IF ~fast.raised /\ test_property_validity(fast.value)
                THEN [kind |-> "value", err |-> "", value |-> fast.value, by |-> m0,
                      path |-> "fast", tried |-> <<>>, method |-> m0,
                      sorted_valid_methods |-> svm0, interpolators |-> fast.interpolators]
                ELSE full_path_P(T, P, m0, svm0, fast.interpolators)
              : fast \in {calculate_P(T, P, m0, cache0)} })
    ELSE full_path_P(T, P, m0, svm0, cache0)

(* TPDependentProperty.set_user_methods_P(arg, f); the check for an empty   *)
(* list reads self.forced.                                                  *)

set_user_methods_P(arg, f, am, m0, svm0) ==
    LET um == str_to_list(arg)
    IN IF Range(um) \ am # {}
       THEN [raised |-> TRUE, err |-> "method not available",
             user_methods |-> um, forced |-> f, method |-> m0, sorted_valid_methods |-> svm0]
       ELSE IF um = <<>> /\ forced
       THEN [raised |-> TRUE, err |-> "forced without methods",
             user_methods |-> um, forced |-> f, method |-> m0, sorted_valid_methods |-> svm0]
       ELSE [raised |-> FALSE, err |-> "",
             user_methods |-> um, forced |-> f, method |-> None, sorted_valid_methods |-> <<>>]

(* TPDependentProperty.set_tabular_data_P(Ts, Ps, properties, name, check_properties) *)

set_tabular_data_P(Ts, Ps, properties, name, check_properties) ==
    LET nm == IF name = None THEN AutoNames[Cardinality(DOMAIN tabular_data) + 1] ELSE name
        td == [n \in DOMAIN tabular_data \cup {nm} |->
                  IF n = nm THEN [Ts |-> Ts, Ps |-> Ps, properties |-> properties]
                  ELSE tabular_data[n]]
        sum == set_user_methods_P([kind |-> "list", l |-> <<nm>> \o user_methods_P], forced_P,
                                  all_methods_P \cup {nm}, None, sorted_valid_methods_P)
        unchanged(e) == [raised |-> TRUE, err |-> e, name |-> nm,
                         tabular_data |-> tabular_data, all_methods |-> all_methods_P,
                         user_methods |-> user_methods_P, forced |-> forced_P,
                         method |-> method_P, sorted_valid_methods |-> sorted_valid_methods_P]
    IN IF check_properties /\ \E j \in DOMAIN properties : \E i \in DOMAIN properties[j] :
                                  ~test_property_validity(properties[j][i])
       THEN unchanged("properties not feasible")
       ELSE IF ~increasing(Ts) THEN unchanged("temperatures not increasing")
       ELSE IF ~increasing(Ps) THEN unchanged("pressures not increasing")
       ELSE [raised |-> sum.raised, err |-> sum.err, name |-> nm,
             tabular_data |-> td, all_methods |-> all_methods_P \cup {nm},
             user_methods |-> sum.user_methods, forced |-> sum.forced, method |-> sum.method,
             sorted_valid_methods |-> sum.sorted_valid_methods]

----------------------------------------------------------------------------
(* The instance after construction, and the calls made on it.  An instance  *)
(* of TPDependentProperty is used through its pressure-dependent methods.   *)

Classes == {"TDependentProperty", "TPDependentProperty"}

Init ==
    /\ klass \in Classes
    /\ CASRN \in (IF klass = "TDependentProperty" THEN CASRNs ELSE {"67-56-1"})
    /\ all_methods = load_all_methods(CASRN).all_methods
    /\ Tmin = load_all_methods(CASRN).Tmin
    /\ Tmax = load_all_methods(CASRN).Tmax
    /\ user_methods = <<>>
    /\ forced = FALSE
    /\ method = None
    /\ sorted_valid_methods = <<>>
    /\ tabular_data = [n \in {} |-> 0]
    /\ tabular_data_interpolators = [k \in {} |-> 0]
    /\ tabular_extrapolation_permitted = TRUE
    /\ interpolation_T = None
    /\ interpolation_P = None
    /\ interpolation_property = None
    /\ interpolation_property_inv = None
    /\ all_methods_P = IF klass = "TPDependentProperty" THEN builtin_methods_P ELSE {}
    /\ user_methods_P = <<>>
    /\ forced_P = FALSE
    /\ method_P = None
    /\ sorted_valid_methods_P = <<>>
    /\ call = [op |-> "__init__"]
    /\ ret = [kind |-> "ok"]

CallSetUserMethods ==
    /\ klass = "TDependentProperty"
    /\ \E arg \in UserMethodArgs, f \in BOOLEAN :
        \E r \in { set_user_methods(arg, f, all_methods, method, sorted_valid_methods) } :
           /\ user_methods' = r.user_methods
           /\ forced' = r.forced
           /\ method' = r.method
           /\ sorted_valid_methods' = r.sorted_valid_methods
           /\ call' = [op |-> "set_user_methods", user_methods |-> arg, forced |-> f,
                       active_before |-> method # None]
           /\ ret' = [kind |-> IF r.raised THEN "raise" ELSE "ok", err |-> r.err]
           /\ UNCHANGED <<klass, CASRN, all_methods, Tmin, Tmax, tabular_data,
                          tabular_data_interpolators, tabular_extrapolation_permitted, Pvars, Ivars>>

CallSetTabularData ==
    /\ klass = "TDependentProperty"
    /\ Len(user_methods) < MaxStoredLen
    /\ \E d \in Datasets, name \in TabNames, check \in BOOLEAN :
        \E r \in { set_tabular_data(d.Ts, d.properties, name, check) } :
           /\ tabular_data' = r.tabular_data
           /\ all_methods' = r.all_methods
           /\ user_methods' = r.user_methods
           /\ forced' = r.forced
           /\ method' = r.method
           /\ sorted_valid_methods' = r.sorted_valid_methods
           /\ call' = [op |-> "set_tabular_data", Ts |-> d.Ts, properties |-> d.properties,
                       name |-> r.name, check_properties |-> check,
                       user_methods_before |-> user_methods, forced_before |-> forced,
                       active_before |-> method # None]
           /\ ret' = [kind |-> IF r.raised THEN "raise" ELSE "ok", err |-> r.err]
           /\ UNCHANGED <<klass, CASRN, Tmin, Tmax, tabular_data_interpolators,
                          tabular_extrapolation_permitted, Pvars, Ivars>>

SetTabularExtrapolationPermitted ==
    \E b \in BOOLEAN :
        /\ b # tabular_extrapolation_permitted
        /\ tabular_extrapolation_permitted' = b
        /\ call' = [op |-> "tabular_extrapolation_permitted", value |-> b]
        /\ ret' = [kind |-> "ok"]
        /\ UNCHANGED <<klass, CASRN, Tmin, Tmax, tabular_data, tabular_data_interpolators,
                       Tvars, Pvars, Ivars>>

CallTDependentProperty ==
    /\ klass = "TDependentProperty"
    /\ \E T \in Temperatures :
        \E r \in { T_dependent_property(T, method, sorted_valid_methods, tabular_data_interpolators) } :
           /\ method' = r.method
           /\ sorted_valid_methods' = r.sorted_valid_methods
           /\ tabular_data_interpolators' = r.interpolators
           /\ call' = [op |-> "T_dependent_property", T |-> T, method_before |-> method]
           /\ ret' = [kind |-> r.kind, err |-> r.err, value |-> r.value, by |-> r.by,
                      path |-> r.path, tried |-> r.tried]
           /\ UNCHANGED <<klass, CASRN, all_methods, Tmin, Tmax, user_methods, forced,
                          tabular_data, tabular_extrapolation_permitted, Pvars, Ivars>>

CallSolveProp ==
    /\ klass = "TDependentProperty"
    /\ \E goal \in Goals, reset_method \in BOOLEAN :
        \E r \in { solve_prop(goal, reset_method,
                            [method |-> method, sorted_valid_methods |-> sorted_valid_methods,
                             interpolators |-> tabular_data_interpolators,
                             trials |-> <<>>]) } :
           /\ method' = r.st.method
           /\ sorted_valid_methods' = r.st.sorted_valid_methods
           /\ tabular_data_interpolators' = r.st.interpolators
           /\ call' = [op |-> "solve_prop", goal |-> goal, reset_method |-> reset_method]
           /\ ret' = [kind |-> IF r.raised THEN "raise" ELSE "value", err |-> r.err, T |-> r.T]
           /\ UNCHANGED <<klass, CASRN, all_methods, Tmin, Tmax, user_methods, forced,
                          tabular_data, tabular_extrapolation_permitted, Pvars, Ivars>>

CallSetUserMethodsP ==
    /\ klass = "TPDependentProperty"
    /\ \E arg \in UserMethodArgsP, f \in BOOLEAN :
        \E r \in { set_user_methods_P(arg, f, all_methods_P, method_P, sorted_valid_methods_P) } :
           /\ user_methods_P' = r.user_methods
           /\ forced_P' = r.forced
           /\ method_P' = r.method
           /\ sorted_valid_methods_P' = r.sorted_valid_methods
           /\ call' = [op |-> "set_user_methods_P", user_methods |-> arg, forced |-> f,
                       active_before |-> method_P # None]
           /\ ret' = [kind |-> IF r.raised THEN "raise" ELSE "ok", err |-> r.err]
           /\ UNCHANGED <<klass, CASRN, Tmin, Tmax, tabular_data, tabular_data_interpolators,
                          tabular_extrapolation_permitted, all_methods_P, Tvars, Ivars>>

CallSetTabularDataP ==
    /\ klass = "TPDependentProperty"
    /\ Len(user_methods_P) < MaxStoredLen
    /\ \E d \in DatasetsP, name \in TabNamesP, check \in BOOLEAN :
        \E r \in { set_tabular_data_P(d.Ts, d.Ps, d.properties, name, check) } :
           /\ tabular_data' = r.tabular_data
           /\ all_methods_P' = r.all_methods
           /\ user_methods_P' = r.user_methods
           /\ forced_P' = r.forced
           /\ method_P' = r.method
           /\ sorted_valid_methods_P' = r.sorted_valid_methods
           /\ call' = [op |-> "set_tabular_data_P", Ts |-> d.Ts, Ps |-> d.Ps,
                       properties |-> d.properties, name |-> r.name,
                       check_properties |-> check,
                       user_methods_before |-> user_methods_P, forced_before |-> forced_P,
                       active_before |-> method_P # None]
           /\ ret' = [kind |-> IF r.raised THEN "raise" ELSE "ok", err |-> r.err]
           /\ UNCHANGED <<klass, CASRN, Tmin, Tmax, tabular_data_interpolators,
                          tabular_extrapolation_permitted, Tvars, Ivars>>

CallTPDependentProperty ==
    /\ klass = "TPDependentProperty"
    /\ \E c \in Conditions :
        \E r \in { TP_dependent_property(c[1], c[2], method_P, sorted_valid_methods_P,
                                         tabular_data_interpolators) } :
           /\ method_P' = r.method
           /\ sorted_valid_methods_P' = r.sorted_valid_methods
           /\ tabular_data_interpolators' = r.interpolators
           /\ call' = [op |-> "TP_dependent_property", T |-> c[1], P |-> c[2],
                       method_before |-> method_P]
           /\ ret' = [kind |-> r.kind, err |-> r.err, value |-> r.value, by |-> r.by,
                      path |-> r.path, tried |-> r.tried]
           /\ UNCHANGED <<klass, CASRN, Tmin, Tmax, tabular_data,
                          tabular_extrapolation_permitted, all_methods_P, user_methods_P,
                          forced_P, Tvars, Ivars>>

Next ==
    \/ CallSetUserMethods
    \/ CallSetTabularData
    \/ SetTabularExtrapolationPermitted
    \/ CallTDependentProperty
    \/ CallSolveProp
    \/ CallSetUserMethodsP
    \/ CallSetTabularDataP
    \/ CallTPDependentProperty

Spec == Init /\ [][Next]_vars

----------------------------------------------------------------------------
(* Direct calls of interpolate on a TDependentProperty whose interpolation  *)
(* transforms the user changes, and direct calls of test_method_validity.   *)

\* a dataset with a spline (the five points 300..380) and one without
DatasetsI ==
    { [Ts |-> <<300, 320, 340, 360, 380>>, properties |-> <<1000, 1200, 1500, 1700, 2000>>],
      [Ts |-> <<310, 330, 350>>, properties |-> <<1100, 1400, 1600>>] }

\* temperatures interpolate is called at: below, at the first sample, at a
\* sample inside, between samples, at the last sample of either dataset, above
TemperaturesI == {290, 300, 320, 330, 335, 350, 380, 400}

\* (interpolation_T, interpolation_P, interpolation_property,
\* interpolation_property_inv) a user sets: none, a consistent triple, a
\* property transform without its inverse
TransformSets ==
    { [T |-> None, P |-> None, property |-> None, inv |-> None],
      [T |-> "celsius", P |-> None, property |-> "double", inv |-> "half"],
      [T |-> None, P |-> None, property |-> "double", inv |-> None] }

\* numbers test_property_validity is called with: around and at the two
\* bounds, inside, and complex with and without an imaginary part
PropertyValues ==
    { [complex |-> FALSE, re |-> v, im |-> 0] :
         v \in {property_min - 1, property_min, property_min + 1, 1500,
                property_max - 1, property_max, property_max + 1} }
      \cup { [complex |-> TRUE, re |-> 1500, im |-> i] : i \in {0, 1} }

\* temperatures and names test_method_validity is called with
ValidityTemperatures == {199, 200, 299, 300, 350, 351, 380, 381, 400, 401}
ValidityNames == {TEST_METHOD_1, TEST_METHOD_2, "tab", "bogus"}

InitDirect ==
    /\ Init
    /\ klass = "TDependentProperty"

SetInterpolationTransforms ==
    \E t \in TransformSets :
        /\ <<t.T, t.P, t.property, t.inv>> # Ivars
        /\ interpolation_T' = t.T
        /\ interpolation_P' = t.P
        /\ interpolation_property' = t.property
        /\ interpolation_property_inv' = t.inv
        /\ call' = [op |-> "interpolation transforms"]
        /\ ret' = [kind |-> "ok"]
        /\ UNCHANGED <<klass, CASRN, Tmin, Tmax, tabular_data, tabular_data_interpolators,
                       tabular_extrapolation_permitted, Tvars, Pvars>>

CallSetTabularDataI ==
    /\ Len(user_methods) < MaxStoredLen
    /\ \E d \in DatasetsI, name \in TabNames :
        \E r \in { set_tabular_data(d.Ts, d.properties, name, TRUE) } :
           /\ tabular_data' = r.tabular_data
           /\ all_methods' = r.all_methods
           /\ user_methods' = r.user_methods
           /\ forced' = r.forced
           /\ method' = r.method
           /\ sorted_valid_methods' = r.sorted_valid_methods
           /\ call' = [op |-> "set_tabular_data", Ts |-> d.Ts, properties |-> d.properties,
                       name |-> r.name, check_properties |-> TRUE,
                       user_methods_before |-> user_methods, forced_before |-> forced,
                       active_before |-> method # None]
           /\ ret' = [kind |-> IF r.raised THEN "raise" ELSE "ok", err |-> r.err]
           /\ UNCHANGED <<klass, CASRN, Tmin, Tmax, tabular_data_interpolators,
                          tabular_extrapolation_permitted, Pvars, Ivars>>

\* interpolate(T, name); self.tabular_data[name] is a KeyError for a name
\* that was not registered
CallInterpolate ==
    \E T \in TemperaturesI, name \in TabNames :
        /\ call' = [op |-> "interpolate", T |-> T, name |-> name,
                    hit |-> interpolators_key(name) \in DOMAIN tabular_data_interpolators]
        /\ IF name \notin DOMAIN tabular_data
           THEN /\ ret' = [kind |-> "raise", err |-> "KeyError", value |-> 0, tool |-> None]
                /\ UNCHANGED tabular_data_interpolators
           ELSE \E r \in { interpolate(T, name, tabular_data_interpolators) } :
                   /\ ret' = [kind |-> IF r.raised THEN "raise" ELSE "value", err |-> r.err,
                              value |-> r.value, tool |-> r.tool]
                   /\ tabular_data_interpolators' = r.interpolators
        /\ UNCHANGED <<klass, CASRN, Tmin, Tmax, tabular_data,
                       tabular_extrapolation_permitted, Tvars, Pvars, Ivars>>

\* test_method_validity(T, method)
CallTestMethodValidity ==
    \E T \in ValidityTemperatures, m \in ValidityNames :
        /\ call' = [op |-> "test_method_validity", T |-> T, method |-> m]
        /\ ret' = IF test_method_validity_raises(m)
                  THEN [kind |-> "raise", validity |-> FALSE]
                  ELSE [kind |-> "value", validity |-> test_method_validity(T, m)]
        /\ UNCHANGED <<klass, CASRN, Tmin, Tmax, tabular_data, tabular_data_interpolators,
                       tabular_extrapolation_permitted, Tvars, Pvars, Ivars>>

\* test_property_validity(prop)
CallTestPropertyValidity ==
    \E prop \in PropertyValues :
        /\ call' = [op |-> "test_property_validity", prop |-> prop]
        /\ ret' = [kind |-> "value", validity |-> test_property_validity_number(prop)]
        /\ UNCHANGED <<klass, CASRN, Tmin, Tmax, tabular_data, tabular_data_interpolators,
                       tabular_extrapolation_permitted, Tvars, Pvars, Ivars>>

NextDirect ==
    \/ SetInterpolationTransforms
    \/ CallSetTabularDataI
    \/ CallInterpolate

SpecDirect == InitDirect /\ [][NextDirect]_vars

NextValidity ==
    \/ CallSetTabularDataI
    \/ SetTabularExtrapolationPermitted
    \/ CallTestMethodValidity
    \/ CallTestPropertyValidity
    \/ CallTDependentProperty

SpecValidity == InitDirect /\ [][NextValidity]_vars

----------------------------------------------------------------------------
(* Direct calls of interpolate_P on a TPDependentProperty whose             *)
(* interpolation transforms the user changes.                               *)

\* transforms a user sets: none, one for the temperature alone, different
\* ones for temperature and pressure, one for the pressure alone
TransformSetsP ==
    { [T |-> None, P |-> None, property |-> None, inv |-> None],
      [T |-> "celsius", P |-> None, property |-> None, inv |-> None],
      [T |-> "celsius", P |-> "double", property |-> "double", inv |-> "half"],
      [T |-> None, P |-> "double", property |-> None, inv |-> None] }

InitDirectP ==
    /\ Init
    /\ klass = "TPDependentProperty"

SetInterpolationTransformsP ==
    \E t \in TransformSetsP :
        /\ <<t.T, t.P, t.property, t.inv>> # Ivars
        /\ interpolation_T' = t.T
        /\ interpolation_P' = t.P
        /\ interpolation_property' = t.property
        /\ interpolation_property_inv' = t.inv
        /\ call' = [op |-> "interpolation transforms"]
        /\ ret' = [kind |-> "ok"]
        /\ UNCHANGED <<klass, CASRN, Tmin, Tmax, tabular_data, tabular_data_interpolators,
                       tabular_extrapolation_permitted, Tvars, Pvars>>

\* interpolate_P(T, P, name); self.tabular_data[name] is a KeyError for a
\* name that was not registered
CallInterpolateP ==
    \E c \in Conditions, name \in TabNamesP :
        /\ call' = [op |-> "interpolate_P", T |-> c[1], P |-> c[2], name |-> name]
        /\ IF name \notin DOMAIN tabular_data
           THEN /\ ret' = [kind |-> "raise", err |-> "KeyError", value |-> 0,
                           query |-> [T |-> c[1], P |-> c[2]]]
                /\ UNCHANGED tabular_data_interpolators
           ELSE \E r \in { interpolate_P(c[1], c[2], name, tabular_data_interpolators) } :
                   /\ ret' = [kind |-> IF r.raised THEN "raise" ELSE "value", err |-> r.err,
                              value |-> r.value, query |-> r.query]
                   /\ tabular_data_interpolators' = r.interpolators
        /\ UNCHANGED <<klass, CASRN, Tmin, Tmax, tabular_data,
                       tabular_extrapolation_permitted, Tvars, Pvars, Ivars>>

NextDirectP ==
    \/ SetInterpolationTransformsP
    \/ CallSetTabularDataP
    \/ CallInterpolateP

SpecDirectP == InitDirectP /\ [][NextDirectP]_vars

----------------------------------------------------------------------------
(* solve_prop on instances with two built-in methods, with one, and with    *)
(* none, next to the calls that change what a trial evaluation finds.       *)

CASRNsSolve == {"67-56-1", "7732-18-5", ""}

\* preference lists: none, a built-in method, the tabular dataset
UserMethodArgsSolve ==
    { [kind |-> "list", l |-> l] : l \in {<<>>, <<TEST_METHOD_1>>, <<"tab">>} }

\* a dataset that is plausible wherever it is evaluated, and one that is
\* implausible below 325 K and is stored without the check of its values
DatasetsSolve ==
    { [Ts |-> <<300, 350>>, properties |-> <<1500, 1800>>, check_properties |-> TRUE],
      [Ts |-> <<300, 350>>, properties |-> <<-1000, 1000>>, check_properties |-> FALSE] }

\* goals: Test method 1 at 201, 250, 349 and 350 K, above every method,
\* below property_min and above property_max
GoalsSolve == {1402, 1500, 1698, 1700, 5000, -5, property_max + 1}

InitSolve ==
    /\ klass = "TDependentProperty"
    /\ CASRN \in CASRNsSolve
    /\ all_methods = load_all_methods(CASRN).all_methods
    /\ Tmin = load_all_methods(CASRN).Tmin
    /\ Tmax = load_all_methods(CASRN).Tmax
    /\ user_methods = <<>>
    /\ forced = FALSE
    /\ method = None
    /\ sorted_valid_methods = <<>>
    /\ tabular_data = [n \in {} |-> 0]
    /\ tabular_data_interpolators = [k \in {} |-> 0]
    /\ tabular_extrapolation_permitted = TRUE
    /\ interpolation_T = None
    /\ interpolation_P = None
    /\ interpolation_property = None
    /\ interpolation_property_inv = None
    /\ all_methods_P = {}
    /\ user_methods_P = <<>>
    /\ forced_P = FALSE
    /\ method_P = None
    /\ sorted_valid_methods_P = <<>>
    /\ call = [op |-> "__init__"]
    /\ ret = [kind |-> "ok"]

CallSetUserMethodsSolve ==
    \E arg \in UserMethodArgsSolve, f \in BOOLEAN :
        \E r \in { set_user_methods(arg, f, all_methods, method, sorted_valid_methods) } :
           /\ user_methods' = r.user_methods
           /\ forced' = r.forced
           /\ method' = r.method
           /\ sorted_valid_methods' = r.sorted_valid_methods
           /\ call' = [op |-> "set_user_methods", user_methods |-> arg, forced |-> f,
                       active_before |-> method # None]
           /\ ret' = [kind |-> IF r.raised THEN "raise" ELSE "ok", err |-> r.err]
           /\ UNCHANGED <<klass, CASRN, all_methods, Tmin, Tmax, tabular_data,
                          tabular_data_interpolators, tabular_extrapolation_permitted, Pvars, Ivars>>

CallSetTabularDataSolve ==
    /\ Len(user_methods) < MaxStoredLen
    /\ \E d \in DatasetsSolve, name \in TabNames :
        \E r \in { set_tabular_data(d.Ts, d.properties, name, d.check_properties) } :
           /\ tabular_data' = r.tabular_data
           /\ all_methods' = r.all_methods
           /\ user_methods' = r.user_methods
           /\ forced' = r.forced
           /\ method' = r.method
           /\ sorted_valid_methods' = r.sorted_valid_methods
           /\ call' = [op |-> "set_tabular_data", Ts |-> d.Ts, properties |-> d.properties,
                       name |-> r.name, check_properties |-> d.check_properties,
                       user_methods_before |-> user_methods, forced_before |-> forced,
                       active_before |-> method # None]
           /\ ret' = [kind |-> IF r.raised THEN "raise" ELSE "ok", err |-> r.err]
           /\ UNCHANGED <<klass, CASRN, Tmin, Tmax, tabular_data_interpolators,
                          tabular_extrapolation_permitted, Pvars, Ivars>>

CallSolvePropSolve ==
    \E goal \in GoalsSolve, reset_method \in BOOLEAN :
        \E r \in { solve_prop(goal, reset_method,
                            [method |-> method, sorted_valid_methods |-> sorted_valid_methods,
                             interpolators |-> tabular_data_interpolators,
                             trials |-> <<>>]) } :
           /\ method' = r.st.method
           /\ sorted_valid_methods' = r.st.sorted_valid_methods
           /\ tabular_data_interpolators' = r.st.interpolators
           /\ call' = [op |-> "solve_prop", goal |-> goal, reset_method |-> reset_method]
           /\ ret' = [kind |-> IF r.raised THEN "raise" ELSE "value", err |-> r.err, T |-> r.T]
           /\ UNCHANGED <<klass, CASRN, all_methods, Tmin, Tmax, user_methods, forced,
                          tabular_data, tabular_extrapolation_permitted, Pvars, Ivars>>

NextSolve ==
    \/ CallSetUserMethodsSolve
    \/ CallSetTabularDataSolve
    \/ CallTDependentProperty
    \/ CallSolvePropSolve

SpecSolve == InitSolve /\ [][NextSolve]_vars

----------------------------------------------------------------------------
(* The derivative and the two integrals of a T-dependent property, on an    *)
(* object with a preference list and with tabular data                      *)

\* a falling line, whose derivative is negative, and a dataset interp1d
\* refuses, so that every calculation with it raises
DatasetsCalculus ==
    { [Ts |-> <<300, 350>>, properties |-> <<1800, 1500>>],
      [Ts |-> <<300, 350, 380>>, properties |-> <<1500, 1800>>] }

Orders == {1, 2}                \* derivative orders

\* (T1, T2) limits of integration: inside one method's window, from one
\* method's window into the other's, and outside every window
Intervals == {<<250, 320>>, <<250, 380>>, <<320, 380>>, <<380, 500>>, <<500, 520>>}

CallSetTabularDataCalculus ==
    /\ Len(user_methods) < MaxStoredLen
    /\ \E d \in DatasetsCalculus, name \in TabNames :
        \E r \in { set_tabular_data(d.Ts, d.properties, name, TRUE) } :
           /\ tabular_data' = r.tabular_data
           /\ all_methods' = r.all_methods
           /\ user_methods' = r.user_methods
           /\ forced' = r.forced
           /\ method' = r.method
           /\ sorted_valid_methods' = r.sorted_valid_methods
           /\ call' = [op |-> "set_tabular_data", Ts |-> d.Ts, properties |-> d.properties,
                       name |-> r.name, check_properties |-> TRUE,
                       user_methods_before |-> user_methods, forced_before |-> forced,
                       active_before |-> method # None]
           /\ ret' = [kind |-> IF r.raised THEN "raise" ELSE "ok", err |-> r.err]
           /\ UNCHANGED <<klass, CASRN, Tmin, Tmax, tabular_data_interpolators,
                          tabular_extrapolation_permitted, Pvars, Ivars>>

CallTDependentPropertyDerivative ==
    \E T \in Temperatures, order \in Orders :
        \E r \in { T_dependent_property_derivative(T, order, tabular_data_interpolators) } :
           /\ tabular_data_interpolators' = r.interpolators
           /\ call' = [op |-> "T_dependent_property_derivative", T |-> T, order |-> order]
           /\ ret' = [kind |-> r.kind, err |-> r.err, value |-> r.value, by |-> r.by,
                      tried |-> r.tried]
           /\ sorted_valid_methods' = local_list(r.list)
           /\ UNCHANGED <<klass, CASRN, Tmin, Tmax, tabular_data,
                          tabular_extrapolation_permitted, all_methods, user_methods,
                          forced, method, Pvars, Ivars>>

CallTDependentPropertyIntegral ==
    \E I \in Intervals :
        \E r \in { T_dependent_property_integral(I[1], I[2], tabular_data_interpolators) } :
           /\ tabular_data_interpolators' = r.interpolators
           /\ call' = [op |-> "T_dependent_property_integral", T1 |-> I[1], T2 |-> I[2]]
           /\ ret' = [kind |-> r.kind, err |-> r.err, value |-> r.value, by |-> r.by,
                      tried |-> r.tried]
           /\ sorted_valid_methods' = local_list(r.list)
           /\ UNCHANGED <<klass, CASRN, Tmin, Tmax, tabular_data,
                          tabular_extrapolation_permitted, all_methods, user_methods,
                          forced, method, Pvars, Ivars>>

CallTDependentPropertyIntegralOverT ==
    \E I \in Intervals :
        \E r \in { T_dependent_property_integral_over_T(I[1], I[2], tabular_data_interpolators) } :
           /\ tabular_data_interpolators' = r.interpolators
           /\ call' = [op |-> "T_dependent_property_integral_over_T", T1 |-> I[1], T2 |-> I[2]]
           /\ ret' = [kind |-> r.kind, err |-> r.err, value |-> r.value, by |-> r.by,
                      tried |-> r.tried]
           /\ sorted_valid_methods' = local_list(r.list)
           /\ UNCHANGED <<klass, CASRN, Tmin, Tmax, tabular_data,
                          tabular_extrapolation_permitted, all_methods, user_methods,
                          forced, method, Pvars, Ivars>>

NextCalculus ==
    \/ CallSetUserMethodsSolve
    \/ CallSetTabularDataCalculus
    \/ SetTabularExtrapolationPermitted
    \/ CallTDependentProperty
    \/ CallTDependentPropertyDerivative
    \/ CallTDependentPropertyIntegral
    \/ CallTDependentPropertyIntegralOverT

SpecCalculus == InitSolve /\ [][NextCalculus]_vars

----------------------------------------------------------------------------
(* The ranked list of an object configured through set_user_methods and     *)
(* set_tabular_data calls that returned without raising                     *)

SetUserMethodsAccepted ==
    \E arg \in UserMethodArgs, f \in BOOLEAN :
        \E r \in { set_user_methods(arg, f, all_methods, method, sorted_valid_methods) } :
           /\ ~r.raised
           /\ user_methods' = r.user_methods
           /\ forced' = r.forced
           /\ method' = r.method
           /\ sorted_valid_methods' = r.sorted_valid_methods
           /\ call' = [op |-> "set_user_methods", user_methods |-> arg, forced |-> f]
           /\ ret' = [kind |-> "ok"]
           /\ UNCHANGED <<klass, CASRN, all_methods, Tmin, Tmax, tabular_data,
                          tabular_data_interpolators, tabular_extrapolation_permitted, Pvars, Ivars>>

SetTabularDataAccepted ==
    /\ Len(user_methods) < MaxStoredLen
    /\ \E d \in Datasets, name \in TabNames, check \in BOOLEAN :
        \E r \in { set_tabular_data(d.Ts, d.properties, name, check) } :
           /\ ~r.raised
           /\ tabular_data' = r.tabular_data
           /\ all_methods' = r.all_methods
           /\ user_methods' = r.user_methods
           /\ forced' = r.forced
           /\ method' = r.method
           /\ sorted_valid_methods' = r.sorted_valid_methods
           /\ call' = [op |-> "set_tabular_data", name |-> r.name,
                       registered_before |-> r.name \in DOMAIN tabular_data]
           /\ ret' = [kind |-> "ok"]
           /\ UNCHANGED <<klass, CASRN, Tmin, Tmax, tabular_data_interpolators,
                          tabular_extrapolation_permitted, Pvars, Ivars>>

CallSelectValidMethods ==
    \E T \in Temperatures :
        \E r \in { select_valid_methods(T) } :
           /\ call' = [op |-> "select_valid_methods", T |-> T]
           /\ ret' = [kind |-> IF r.raised THEN "raise" ELSE "value", err |-> r.err,
                      list |-> r.list]
           /\ UNCHANGED <<klass, CASRN, Tmin, Tmax, tabular_data, tabular_data_interpolators,
                          tabular_extrapolation_permitted, Tvars, Pvars, Ivars>>

NextAccepted ==
    \/ SetUserMethodsAccepted
    \/ SetTabularDataAccepted
    \/ CallSelectValidMethods

SpecAccepted == InitSolve /\ [][NextAccepted]_vars

----------------------------------------------------------------------------
(* Properties *)

\* the outcome of calculating with method m at the condition of the last call
calc_T(m) == calculate(call.T, m, tabular_data_interpolators)
calc_P(m) == calculate_P(call.T, call.P, m, tabular_data_interpolators)
\* the same at a given temperature
value_at(T, m) == calculate(T, m, tabular_data_interpolators).value
succeeds_at(T, m) ==
    \E c \in { calculate(T, m, tabular_data_interpolators) } :
        ~c.raised /\ test_property_validity(c.value)
succeeds_T(m) == ~calc_T(m).raised /\ test_property_validity(calc_T(m).value)
succeeds_P(m) == ~calc_P(m).raised /\ test_property_validity(calc_P(m).value)

\* C1: every value T_dependent_property(T) returns was computed by a method
\* that test_method_validity accepts at T in the state of the call, and the
\* value passes test_property_validity, on the fast path and on the full
\* path; likewise for TP_dependent_property(T, P).
C1_ValueFromValidMethod ==
    /\ (call.op = "T_dependent_property" /\ ret.kind = "value") =>
          /\ ~test_method_validity_raises(ret.by)
          /\ test_method_validity(call.T, ret.by)
          /\ ~calc_T(ret.by).raised
          /\ calc_T(ret.by).value = ret.value
          /\ test_property_validity(ret.value)
    /\ (call.op = "TP_dependent_property" /\ ret.kind = "value") =>
          /\ ~test_method_validity_P_raises(ret.by)
          /\ test_method_validity_P(call.T, call.P, ret.by)
          /\ ~calc_P(ret.by).raised
          /\ calc_P(ret.by).value = ret.value
          /\ test_property_validity(ret.value)

\* C1 witness: a value returned on the fast path by a tabular method, whose
\* validity depends on the state
C1_Witness ==
    /\ call.op = "T_dependent_property"
    /\ ret.kind = "value"
    /\ ret.path = "fast"
    /\ ret.by \in DOMAIN tabular_data
    /\ ~tabular_extrapolation_permitted

\* C2: with no active method stored, T_dependent_property(T) returns the
\* value of the first method of select_valid_methods(T) that calculates a
\* plausible value, stores that method, and has tried the methods before it
\* and none after it.
C2_FirstSuccessInOrder ==
    (call.op = "T_dependent_property" /\ call.method_before = None /\ ret.kind # "raise") =>
        LET svm == select_valid_methods(call.T).list
            good == {i \in DOMAIN svm : succeeds_T(svm[i])}
        IN good # {} =>
              LET k == CHOOSE i \in good : \A j \in good : i <= j
              IN /\ ret.kind = "value"
                 /\ ret.by = svm[k]
                 /\ ret.value = calc_T(svm[k]).value
                 /\ method = svm[k]
                 /\ ret.tried = SubSeq(svm, 1, k)

\* C2 witness: the first method of the list failed, the second gave the
\* value, and a third one was left untried
C2_Witness ==
    /\ call.op = "T_dependent_property"
    /\ call.method_before = None
    /\ ret.kind = "value"
    /\ Len(ret.tried) = 2
    /\ Len(sorted_valid_methods) = 3
    /\ ~succeeds_T(sorted_valid_methods[1])
    /\ succeeds_T(sorted_valid_methods[3])

\* C3: T_dependent_property(T) does not raise when select_valid_methods(T)
\* yields a list, whatever the methods' calculations do; it returns None
\* exactly when neither the active method (if valid at T) nor any method of
\* the list calculates a plausible value.
C3_FailuresGiveNone ==
    (call.op = "T_dependent_property") =>
        LET sel == select_valid_methods(call.T)
            m0 == call.method_before
            fastOk == /\ m0 # None
                      /\ ~test_method_validity_raises(m0)
                      /\ test_method_validity(call.T, m0)
                      /\ succeeds_T(m0)
        IN (~sel.raised /\ ~(m0 # None /\ test_method_validity_raises(m0))) =>
              /\ ret.kind \in {"value", "None"}
              /\ (ret.kind = "None") <=>
                    (~fastOk /\ \A i \in DOMAIN sel.list : ~succeeds_T(sel.list[i]))

\* C3 witness: None although methods were valid at T and were tried, one of
\* which raised in its calculation
C3_Witness ==
    /\ call.op = "T_dependent_property"
    /\ ret.kind = "None"
    /\ ret.tried # <<>>
    /\ \E i \in DOMAIN ret.tried : calc_T(ret.tried[i]).raised

\* the instance of the scenario: both built-in methods, no user preference,
\* no tabular data
C4_Scenario ==
    /\ klass = "TDependentProperty"
    /\ CASRN = "67-56-1"
    /\ user_methods = <<>>
    /\ ~forced
    /\ DOMAIN tabular_data = {}
    /\ call.op = "T_dependent_property"

\* C4, as claimed: in every reachable state of that instance
\* T_dependent_property(320) returns 1.96 by Test method 2 and records it,
\* and T_dependent_property(250) returns 1.5 by Test method 1 and records it.
C4_Original ==
    C4_Scenario =>
        /\ call.T = 320 => (ret.kind = "value" /\ ret.value = 1960 /\ method = TEST_METHOD_2)
        /\ call.T = 250 => (ret.kind = "value" /\ ret.value = 1500 /\ method = TEST_METHOD_1)

\* C4, amended: T_dependent_property(250) returns 1.5 by Test method 1 and
\* records it; T_dependent_property(320) returns 1.96 by Test method 2 and
\* records it unless Test method 1 is the active method, and then it returns
\* 1.64 by Test method 1, which stays the active method.
C4_Amended ==
    C4_Scenario =>
        /\ call.T = 320 =>
              IF call.method_before = TEST_METHOD_1
              THEN ret.kind = "value" /\ ret.value = 1640 /\ ret.by = TEST_METHOD_1
                   /\ method = TEST_METHOD_1
              ELSE ret.kind = "value" /\ ret.value = 1960 /\ ret.by = TEST_METHOD_2
                   /\ method = TEST_METHOD_2
        /\ call.T = 250 => (ret.kind = "value" /\ ret.value = 1500 /\ ret.by = TEST_METHOD_1
                            /\ method = TEST_METHOD_1)

\* C4 witness: 320 K evaluated while Test method 1 was the active method
C4_Witness ==
    /\ C4_Scenario
    /\ call.T = 320
    /\ call.method_before = TEST_METHOD_1
    /\ ret.value = 1640

\* C5, as claimed: select_valid_methods(T) returns the user's methods in the
\* user's order, then (unless forced) every other known method in the order
\* of ranked_methods, filtered to the methods valid at T.  Stated for the
\* states in which user_methods is a list of different known methods.
C5_Original ==
    (/\ klass = "TDependentProperty"
     /\ Range(user_methods) \subseteq all_methods
     /\ \A i, j \in DOMAIN user_methods : user_methods[i] = user_methods[j] => i = j) =>
        \A T \in Temperatures :
            LET r == select_valid_methods(T)
                others == all_methods \ Range(user_methods)
                ranked == SelectSeq(ranked_methods, LAMBDA m : m \in others)
                valid(l) == SelectSeq(l, LAMBDA m : test_method_validity(T, m))
            IN /\ ~r.raised
               /\ forced => r.list = valid(user_methods)
               /\ ~forced => /\ Range(r.list) = {m \in all_methods : test_method_validity(T, m)}
                             /\ SubSeq(r.list, 1, Len(valid(user_methods))) = valid(user_methods)
                             /\ SubSeq(r.list, Len(valid(user_methods)) + 1, Len(r.list))
                                   = valid(ranked)

\* C6, as claimed: while forced is True, T_dependent_property returns no
\* value computed by a method that is not in user_methods.
C6_Original ==
    (call.op = "T_dependent_property" /\ forced /\ ret.kind = "value") =>
        ret.by \in Range(user_methods)

\* C7: set_user_methods raises when a given name is not in all_methods and
\* when forced is True with an empty list; a str that names a known method
\* is accepted as the list of that one name.
C7_SetUserMethodsRejects ==
    (call.op = "set_user_methods") =>
        LET arg == call.user_methods
        IN /\ (arg.kind = "list" /\ \E i \in DOMAIN arg.l : arg.l[i] \notin all_methods)
                 => ret.kind = "raise"
           /\ (arg.kind = "str" /\ arg.s \notin all_methods) => ret.kind = "raise"
           /\ (arg.kind = "list" /\ arg.l = <<>> /\ call.forced) => ret.kind = "raise"
           /\ (arg.kind = "str" /\ arg.s \in all_methods)
                 => (ret.kind = "ok" /\ user_methods = <<arg.s>> /\ forced = call.forced)

\* C7 witness: forced with an empty list was rejected
C7_Witness ==
    /\ call.op = "set_user_methods"
    /\ call.user_methods.kind = "list"
    /\ call.user_methods.l = <<>>
    /\ call.forced
    /\ ret.kind = "raise"

\* C8, as claimed: in every reachable state every name in user_methods is in
\* all_methods, and forced is not True with user_methods empty.
C8_Original ==
    (klass = "TDependentProperty") =>
        /\ Range(user_methods) \subseteq all_methods
        /\ ~(forced /\ user_methods = <<>>)

\* C9: after a successful set_user_methods the active method is None and
\* sorted_valid_methods is empty, and a T_dependent_property call that
\* follows it takes the full path: what it returns comes from the first
\* method of the new ranked list that succeeds.
C9_SetUserMethodsResets ==
    [][ /\ (call'.op = "set_user_methods" /\ ret'.kind = "ok")
            => (method' = None /\ sorted_valid_methods' = <<>>)
        /\ (call.op = "set_user_methods" /\ ret.kind = "ok"
              /\ call'.op = "T_dependent_property" /\ ret'.kind # "raise")
            => /\ ret'.path = "full"
               /\ sorted_valid_methods' = select_valid_methods(call'.T).list
               /\ ret'.tried = SubSeq(sorted_valid_methods', 1, Len(ret'.tried))
               /\ ret'.kind = "value" => ret'.by = ret'.tried[Len(ret'.tried)] ]_vars

\* C9 witness: a successful set_user_methods on an instance that had an
\* active method
C9_Witness ==
    /\ call.op = "set_user_methods"
    /\ ret.kind = "ok"
    /\ call.active_before
    /\ method = None

C11_RejectsUnsorted ==
    [][ /\ (call'.op = "set_tabular_data" /\ ~increasing(call'.Ts))
            => /\ ret'.kind = "raise"
               /\ UNCHANGED <<tabular_data, tabular_data_interpolators, Tvars>>
        /\ (call'.op = "set_tabular_data_P" /\ (~increasing(call'.Ts) \/ ~increasing(call'.Ps)))
            => /\ ret'.kind = "raise"
               /\ UNCHANGED <<tabular_data, tabular_data_interpolators, Pvars>> ]_vars

\* C11 witness: unsorted temperatures were rejected on an instance with an
\* active method, which is still active
C11_Witness ==
    /\ call.op = "set_tabular_data"
    /\ ~increasing(call.Ts)
    /\ ret.kind = "raise"
    /\ ret.err = "temperatures not increasing"
    /\ call.active_before
    /\ method # None

\* C12: set_tabular_data with check_properties True and an implausible
\* property value raises and changes nothing; with check_properties False the
\* same values (with increasing temperatures) are stored under the name, the
\* name joins all_methods, and the call succeeds whenever the preference list
\* it re-installs holds known methods only.
C12_CheckProperties ==
    [][ (call'.op = "set_tabular_data"
           /\ \E i \in DOMAIN call'.properties : ~test_property_validity(call'.properties[i]))
        => /\ call'.check_properties
              => /\ ret'.kind = "raise"
                 /\ ret'.err = "properties not feasible"
                 /\ UNCHANGED <<tabular_data, tabular_data_interpolators, Tvars>>
           /\ (~call'.check_properties /\ increasing(call'.Ts))
              => /\ call'.name \in DOMAIN tabular_data'
                 /\ tabular_data'[call'.name]
                       = [Ts |-> call'.Ts, properties |-> call'.properties]
                 /\ call'.name \in all_methods'
                 /\ ret'.err # "properties not feasible"
                 /\ (Range(user_methods) \subseteq all_methods \cup {call'.name})
                       => ret'.kind = "ok" ]_vars

\* C12 witness: implausible values were stored with check_properties False
C12_Witness ==
    /\ call.op = "set_tabular_data"
    /\ ~call.check_properties
    /\ \E i \in DOMAIN call.properties : ~test_property_validity(call.properties[i])
    /\ ret.kind = "ok"
    /\ tabular_data[call.name].properties = call.properties

\* C13, as claimed: interpolate(T, name) is computed from the data stored
\* under the name: it returns what interpolators fitted to the stored data
\* return, also after set_tabular_data stored new data under the name.
C13_Original ==
    (call.op = "interpolate" /\ call.name \in DOMAIN tabular_data) =>
        LET fresh == interpolate(call.T, call.name, <<>>)
        IN IF fresh.raised THEN ret.kind = "raise"
           ELSE ret.kind = "value" /\ ret.value = fresh.value

\* C14: no step removes or replaces an entry of the interpolator cache; an
\* interpolate call whose key is in the cache leaves the cache as it is, and
\* one whose key is not (the first call for the name, or the first after the
\* transforms were changed) adds the pair fitted to the stored data under
\* that key and nothing else.
C14_CacheBuiltOnce ==
    [][ /\ \A k \in DOMAIN tabular_data_interpolators :
              /\ k \in DOMAIN tabular_data_interpolators'
              /\ tabular_data_interpolators'[k] = tabular_data_interpolators[k]
        /\ (call'.op = "interpolate" /\ call'.name \in DOMAIN tabular_data) =>
              LET key == <<call'.name, interpolation_T, interpolation_property,
                           interpolation_property_inv>>
                  Ts == tabular_data[call'.name].Ts
                  properties == tabular_data[call'.name].properties
              IN IF key \in DOMAIN tabular_data_interpolators
                 THEN tabular_data_interpolators' = tabular_data_interpolators
                 ELSE /\ DOMAIN tabular_data_interpolators'
                            = DOMAIN tabular_data_interpolators \cup {key}
                      /\ tabular_data_interpolators'[key].spline = (Len(properties) >= 5)
                      /\ tabular_data_interpolators'[key].Ts
                            = [i \in DOMAIN Ts |->
                                  IF interpolation_T = "celsius" THEN Ts[i] - 273 ELSE Ts[i]]
                      /\ tabular_data_interpolators'[key].properties
                            = [i \in DOMAIN properties |->
                                  IF interpolation_property = "double"
                                  THEN 2 * properties[i] ELSE properties[i]] ]_vars

\* C14 witness: a call that reused its entry while the cache also held an
\* entry made under other transforms
C14_Witness ==
    /\ call.op = "interpolate"
    /\ call.hit
    /\ ret.kind = "value"
    /\ Cardinality(DOMAIN tabular_data_interpolators) >= 2

\* the stored temperatures of the dataset of the last interpolate call
call_Ts == tabular_data[call.name].Ts

C16_Original ==
    (/\ call.op = "interpolate"
     /\ call.name \in DOMAIN tabular_data
     /\ call.T \in {call_Ts[1], call_Ts[Len(call_Ts)]}) =>
        ret.tool = "extrapolator"

\* C16, amended: at the first and at the last stored temperature interpolate
\* evaluates the spline when the cached pair has one, and the linear
\* extrapolator only when it has none.
C16_Amended ==
    (/\ call.op = "interpolate"
     /\ call.name \in DOMAIN tabular_data
     /\ call.T \in {call_Ts[1], call_Ts[Len(call_Ts)]}) =>
        LET pair == tabular_data_interpolators[interpolators_key(call.name)]
        IN ret.tool = (IF pair.spline THEN "spline" ELSE "extrapolator")

\* C16 witness: the spline evaluated at the last temperature of the
\* five-point dataset, and it returns the stored value
C16_Witness ==
    /\ call.op = "interpolate"
    /\ call.name \in DOMAIN tabular_data
    /\ call.T = call_Ts[Len(call_Ts)]
    /\ ret.tool = "spline"
    /\ ret.kind = "value"
    /\ ret.value = tabular_data[call.name].properties[Len(call_Ts)]

\* the value transform and its inverse undo each other, or neither is used
consistent_transforms ==
    \/ interpolation_property = None
    \/ interpolation_property = "double" /\ interpolation_property_inv = "half"

\* C17, as claimed: an interpolate call at a stored temperature Ts[i] of the
\* dataset returns properties[i], whatever transforms are set, when the value
\* transform and its inverse are consistent.
C17_Original ==
    (/\ call.op = "interpolate"
     /\ call.name \in DOMAIN tabular_data
     /\ consistent_transforms) =>
        \A i \in DOMAIN call_Ts :
            call_Ts[i] = call.T =>
                /\ ret.kind = "value"
                /\ ret.value = tabular_data[call.name].properties[i]

\* C18: test_method_validity(T, m) for a loaded built-in method m is true
\* exactly when T lies in the window of m, both end points included.
C18_WindowInclusive ==
    (/\ call.op = "test_method_validity"
     /\ call.method \in load_all_methods(CASRN).all_methods) =>
        /\ ret.kind = "value"
        /\ call.method = TEST_METHOD_1 =>
              (ret.validity <=> (200 <= call.T /\ call.T <= 350))
        /\ call.method = TEST_METHOD_2 =>
              (ret.validity <=> (300 <= call.T /\ call.T <= 400))

\* C18 witness: Test method 1 found valid at the upper end of its window
C18_Witness ==
    /\ call.op = "test_method_validity"
    /\ call.method = TEST_METHOD_1
    /\ call.T = 350
    /\ ret.kind = "value"
    /\ ret.validity

\* C19: test_method_validity(T, name) for a registered dataset is true at
\* every T while tabular_extrapolation_permitted is True and, while it is
\* False, exactly at the T from the first to the last stored temperature;
\* T_dependent_property reads the flag at each call: with the flag False it
\* returns no value of a dataset outside its temperatures, active or not.
C19_TabularValidity ==
    /\ (call.op = "test_method_validity" /\ call.method \in DOMAIN tabular_data) =>
          LET Ts == tabular_data[call.method].Ts
          IN /\ ret.kind = "value"
             /\ ret.validity <=>
                   \/ tabular_extrapolation_permitted
                   \/ (Ts[1] <= call.T /\ call.T <= Ts[Len(Ts)])
    /\ (call.op = "T_dependent_property" /\ ret.kind = "value"
          /\ ret.by \in DOMAIN tabular_data /\ ~tabular_extrapolation_permitted) =>
          LET Ts == tabular_data[ret.by].Ts
          IN Ts[1] <= call.T /\ call.T <= Ts[Len(Ts)]
    /\ (call.op = "T_dependent_property" /\ call.method_before \in DOMAIN tabular_data
          /\ tabular_extrapolation_permitted /\ ret.kind = "value") =>
          (ret.path = "fast" /\ ret.by = call.method_before)

\* C19 witness: a dataset was the active method, extrapolation was then
\* forbidden, and the call outside its temperatures was answered by another
\* method
C19_Witness ==
    /\ call.op = "T_dependent_property"
    /\ call.method_before \in DOMAIN tabular_data
    /\ ~tabular_extrapolation_permitted
    /\ ret.kind = "value"
    /\ ret.by # call.method_before

\* C20: test_method_validity raises for every name that is neither a
\* built-in method nor a registered dataset, and neither select_valid_methods
\* nor T_dependent_property swallows the error: T_dependent_property raises
\* whenever select_valid_methods meets such a name in the list it ranks.
C20_UnknownMethodRaises ==
    /\ test_method_validity_raises("bogus")
    /\ \A m \in Range(user_methods) :
          (m \notin {TEST_METHOD_1, TEST_METHOD_2} /\ m \notin DOMAIN tabular_data)
             => /\ test_method_validity_raises(m)
                /\ \A T \in Temperatures : select_valid_methods(T).raised
    /\ (call.op = "T_dependent_property") =>
          LET sel == select_valid_methods(call.T)
          IN (sel.raised /\ sel.err = "Exception"
                /\ ~(ret.kind = "value" /\ ret.path = "fast"))
             => (ret.kind = "raise" /\ ret.err = "Exception")

\* C20 witness: T_dependent_property raised on its full path over the name
\* "bogus" in user_methods
C20_Witness ==
    /\ call.op = "T_dependent_property"
    /\ ret.kind = "raise"
    /\ ret.err = "Exception"
    /\ ret.path = "full"
    /\ "bogus" \in Range(user_methods)
    /\ forced

----------------------------------------------------------------------------
\* C21: test_property_validity(prop) is False for a complex number, for a
\* value below property_min and for one above property_max, and True for
\* every other value, the two bounds included.
C21_PlausibilityInclusive ==
    call.op = "test_property_validity" =>
        /\ ret.kind = "value"
        /\ ret.validity = ( /\ ~call.prop.complex
                            /\ call.prop.re >= property_min
                            /\ call.prop.re <= property_max )

\* the call was made with property_max itself and answered True
C21_Witness ==
    /\ call.op = "test_property_validity"
    /\ ~call.prop.complex
    /\ call.prop.re = property_max
    /\ ret.validity

----------------------------------------------------------------------------
\* the attributes as a call of solve_prop finds them
solve_state ==
    [method |-> method, sorted_valid_methods |-> sorted_valid_methods,
     interpolators |-> tabular_data_interpolators, trials |-> <<>>]

\* C22: on an instance with Tmin and Tmax set, solve_prop(goal) with a goal
\* that fails test_property_validity raises the 'not plausible' error without
\* one evaluation of T_dependent_property, and the active method,
\* sorted_valid_methods and the interpolators are as before the call.
C22_RejectsImplausibleGoal ==
    [][ ( /\ call'.op = "solve_prop"
          /\ Tmin # Unset /\ Tmax # Unset
          /\ ~test_property_validity(call'.goal) )
        => /\ ret'.kind = "raise"
           /\ ret'.err = "not plausible"
           /\ solve_prop(call'.goal, call'.reset_method, solve_state).st.trials = <<>>
           /\ method' = method
           /\ sorted_valid_methods' = sorted_valid_methods
           /\ tabular_data_interpolators' = tabular_data_interpolators ]_vars

\* a goal above property_max was rejected on an instance that has an active
\* method and a ranked list
C22_Witness ==
    /\ call.op = "solve_prop"
    /\ call.goal > property_max
    /\ ret.kind = "raise" /\ ret.err = "not plausible"
    /\ Tmin # Unset
    /\ method # None
    /\ sorted_valid_methods # <<>>

\* C23 (as claimed): on an instance without Tmin or Tmax solve_prop raises the
\* error about the missing minimum and maximum.
C23_Original ==
    (call.op = "solve_prop" /\ (Tmin = Unset \/ Tmax = Unset))
        => ret.kind = "raise" /\ ret.err = "configuration"

\* C24: when the evaluations solve_prop makes at Tmin and at Tmax both give
\* a value and the two differences from the goal have the same sign,
\* solve_prop raises the 'not possible to calculate the desired value' error
\* and returns no temperature.
C24_NoSignChangeRaises ==
    [][ ( /\ call'.op = "solve_prop"
          /\ Tmin # Unset /\ Tmax # Unset
          /\ test_property_validity(call'.goal) )
        => LET ea == error(Tmin, call'.goal, call'.reset_method, solve_state)
               eb == error(Tmax, call'.goal, call'.reset_method, ea.st)
           IN (~ea.raised /\ ~eb.raised /\ ea.f * eb.f > 0)
                 => ret'.kind = "raise" /\ ret'.err = "not possible" ]_vars

\* the goal 5 lies above what any method gives in [Tmin, Tmax]
C24_Witness ==
    /\ call.op = "solve_prop"
    /\ call.goal = 5000
    /\ Tmin # Unset
    /\ ret.kind = "raise" /\ ret.err = "not possible"
    /\ method # None

\* the validity windows of the methods registered on the instance
windows ==
    (IF TEST_METHOD_1 \in all_methods THEN {<<TEST_METHOD_1_Tmin, TEST_METHOD_1_Tmax>>} ELSE {})
      \cup (IF TEST_METHOD_2 \in all_methods THEN {<<TEST_METHOD_2_Tmin, TEST_METHOD_2_Tmax>>} ELSE {})
      \cup { <<tabular_data[n].Ts[1], tabular_data[n].Ts[Len(tabular_data[n].Ts)]>> :
                n \in DOMAIN tabular_data \cap all_methods }

\* C26 (as claimed): Tmin is the least lower end and Tmax the greatest upper
\* end of the validity windows of the registered methods.
C26_Original ==
    windows # {} =>
        /\ \E w \in windows : Tmin = w[1]
        /\ \A w \in windows : Tmin <= w[1]
        /\ \E w \in windows : Tmax = w[2]
        /\ \A w \in windows : Tmax >= w[2]

\* The property of the instance is given by method m alone over the whole
\* bracket: at every temperature of [Tmin, Tmax] m is the one method
\* select_valid_methods lists, it gives a plausible value, and the value
\* rises or falls strictly with the temperature.
one_monotonic_method(m) ==
    /\ \A T \in Tmin..Tmax :
          /\ select_valid_methods(T) = [raised |-> FALSE, err |-> "", list |-> <<m>>]
          /\ succeeds_at(T, m)
    /\ \/ \A T \in Tmin..(Tmax - 1) : value_at(T, m) < value_at(T + 1, m)
       \/ \A T \in Tmin..(Tmax - 1) : value_at(T, m) > value_at(T + 1, m)

\* C25: on an instance whose property is given by one monotonic method over
\* [Tmin, Tmax], solve_prop called with the value of T_dependent_property at
\* a temperature T0 strictly inside the bracket returns T0.
C25_RoundTrip ==
    (call.op = "solve_prop" /\ Tmin # Unset /\ Tmax # Unset) =>
        \A m \in all_methods :
            one_monotonic_method(m) =>
                \A T0 \in (Tmin + 1)..(Tmax - 1) :
                    (\E r \in { T_dependent_property(T0, method, sorted_valid_methods,
                                                     tabular_data_interpolators) } :
                        r.kind = "value" /\ r.value = call.goal)
                      => ret.kind = "value" /\ ret.T = T0

\* the value of Test method 1 at 349 K was solved for on the instance that
\* has this method alone, bracket [200, 350]
C25_Witness ==
    /\ call.op = "solve_prop"
    /\ CASRN = "7732-18-5"
    /\ one_monotonic_method(TEST_METHOD_1)
    /\ call.goal = 1698
    /\ ret.kind = "value" /\ ret.T = 349

\* C29: when the active method is valid at T and gives a plausible value
\* there, T_dependent_property returns that value on the optimistic track,
\* without building the ranked list, and the active method and
\* sorted_valid_methods are as before the call - whatever other method is
\* valid at T.
C29_FastPath ==
    [][ ( /\ call'.op = "T_dependent_property"
          /\ method # None
          /\ ~test_method_validity_raises(method)
          /\ test_method_validity(call'.T, method)
          /\ succeeds_at(call'.T, method) )
        => /\ ret'.kind = "value"
           /\ ret'.value = value_at(call'.T, method)
           /\ ret'.by = method
           /\ ret'.path = "fast"
           /\ ret'.tried = <<>>
           /\ method' = method
           /\ sorted_valid_methods' = sorted_valid_methods ]_vars

\* Test method 1 answered at 320 K, where Test method 2, ranked above it, is
\* valid too and select_valid_methods would give another list than the one
\* stored
C29_Witness ==
    /\ call.op = "T_dependent_property"
    /\ call.T = 320
    /\ call.method_before = TEST_METHOD_1
    /\ ret.kind = "value" /\ ret.path = "fast" /\ ret.by = TEST_METHOD_1
    /\ method = TEST_METHOD_1
    /\ ~select_valid_methods(320).raised
    /\ select_valid_methods(320).list[1] = TEST_METHOD_2
    /\ sorted_valid_methods # select_valid_methods(320).list

\* the evaluations of T_dependent_property that the solve_prop call of this
\* step makes, in order
solve_trials == solve_prop(call'.goal, call'.reset_method, solve_state).st.trials

\* the first method of select_valid_methods(T) that calculates a plausible
\* value, None when there is none
first_successful(T) ==
    LET list == select_valid_methods(T).list
        S == {i \in DOMAIN list : succeeds_at(T, list[i])}
    IN IF S = {} THEN None ELSE list[CHOOSE i \in S : \A j \in S : i <= j]

\* the active method an evaluation leaves
method_after(t) == IF t.kind = "value" THEN t.by ELSE t.method_before

\* with reset_method True every evaluation starts without an active method
\* and gives the value of the first successful method of
\* select_valid_methods at its temperature
trials_reset(trials) ==
    \A i \in DOMAIN trials :
        \A t \in { trials[i] } :
           /\ t.method_before = None
           /\ t.path = "full"
           /\ IF select_valid_methods(t.T).raised THEN t.kind = "raise"
              ELSE \A first \in { first_successful(t.T) } :
                      IF first = None THEN t.kind = "None"
                      ELSE /\ t.kind = "value"
                           /\ t.by = first
                           /\ t.value = value_at(t.T, first)

\* with reset_method False every evaluation starts with the active method
\* the evaluation before it left, the first with that of the instance
trials_no_reset(trials) ==
    \A i \in DOMAIN trials :
        trials[i].method_before = IF i = 1 THEN method ELSE method_after(trials[i - 1])

\* the active method of evaluation t is valid at its temperature
active_valid(t) ==
    /\ t.method_before # None
    /\ ~test_method_validity_raises(t.method_before)
    /\ test_method_validity(t.T, t.method_before)

\* C30 (as claimed): with reset_method True the value at each trial is that
\* of the first successful method of select_valid_methods(T), whatever the
\* earlier trials; with reset_method False the active method is never cleared
\* and a trial reuses it whenever it is valid at T.
C30_Original ==
    [][ call'.op = "solve_prop"
        => \A trials \in { solve_trials } :
              IF call'.reset_method THEN trials_reset(trials)
              ELSE /\ trials_no_reset(trials)
                   /\ \A i \in DOMAIN trials :
                         \A t \in { trials[i] } :
                            active_valid(t) => t.path = "fast" /\ t.by = t.method_before ]_vars

\* C30: with reset_method True as claimed; with reset_method False the active
\* method is never cleared and a trial reuses it whenever it is valid at T
\* and gives a plausible value there.
C30_Amended ==
    [][ call'.op = "solve_prop"
        => \A trials \in { solve_trials } :
              IF call'.reset_method THEN trials_reset(trials)
              ELSE /\ trials_no_reset(trials)
                   /\ \A i \in DOMAIN trials :
                         \A t \in { trials[i] } :
                            (active_valid(t) /\ succeeds_at(t.T, t.method_before))
                              => /\ t.kind = "value"
                                 /\ t.path = "fast"
                                 /\ t.by = t.method_before
                                 /\ t.value = value_at(t.T, t.by) ]_vars

\* On the instance with Test method 1 ([200, 350]) and a preferred dataset
\* that is implausible below 325 K, solve_prop(1.5, reset_method=False) gave
\* 250 K: the trial at 350 K reused Test method 1, which the trial at 200 K
\* had left active.  With a reset the trial at 350 K takes the dataset and
\* the two ends have the same sign.
C30_Witness ==
    /\ call.op = "solve_prop"
    /\ ~call.reset_method
    /\ call.goal = 1500
    /\ CASRN = "7732-18-5"
    /\ user_methods = <<"tab">>
    /\ ~forced
    /\ first_successful(350) = "tab"
    /\ ret.kind = "value" /\ ret.T = 250
    /\ method = TEST_METHOD_1
    /\ solve_prop(1500, TRUE, solve_state).raised

\* C27 (as claimed): set_user_methods_P raises when forced_P is True and the
\* preference list is empty, whatever the value of forced.
C27_Original ==
    ( /\ call.op = "set_user_methods_P"
      /\ call.forced
      /\ str_to_list(call.user_methods) = <<>> )
        => ret.kind = "raise"

\* C28 (as claimed): interpolate_P calls the interpolator with the query
\* pressure transformed by interpolation_P and the query temperature
\* transformed by interpolation_T.
C28_Original ==
    ( /\ call.op = "interpolate_P"
      /\ call.name \in DOMAIN tabular_data
      /\ ret.err # "ValueError"
      /\ (interpolation_property # None => interpolation_property_inv # None) )
        => /\ ret.kind = "value"
           /\ ret.query.T = (IF interpolation_T # None
                             THEN transform(interpolation_T, call.T) ELSE call.T)
           /\ ret.query.P = (IF interpolation_P # None
                             THEN transform(interpolation_P, call.P) ELSE call.P)

----------------------------------------------------------------------------
(* Derivative and integrals *)

\* the first method of `list` whose calculation, as `raises` tells, succeeds
first_not_raising(list, raises(_)) ==
    IF \E i \in DOMAIN list : ~raises(list[i])
    THEN list[CHOOSE i \in DOMAIN list :
                  ~raises(list[i]) /\ \A j \in 1..(i - 1) : raises(list[j])]
    ELSE None

derivative_of(m) ==
    calculate_derivative(call'.T, m, call'.order, tabular_data_interpolators)

\* C31: T_dependent_property_derivative(T, order) returns what
\* calculate_derivative gives for the first method of select_valid_methods(T)
\* whose derivative does not raise, whether or not that result is a plausible
\* property value and whatever the active method is, and returns None when
\* the list is empty or every method raises
C31_DerivativeFallback ==
    [][ (call'.op = "T_dependent_property_derivative" /\ ret'.kind # "raise") =>
          \A list \in { select_valid_methods(call'.T).list } :
            \A m \in { first_not_raising(list, LAMBDA n : derivative_of(n).raised) } :
              IF m = None THEN ret'.kind = "None"
              ELSE /\ ret'.kind = "value"
                   /\ ret'.by = m
                   /\ ret'.value = derivative_of(m).value ]_vars

\* a derivative that is no plausible property value is returned, by a method
\* other than the active one although the active one is valid at T
C31_Witness ==
    /\ call.op = "T_dependent_property_derivative"
    /\ ret.kind = "value"
    /\ ~test_property_validity(ret.value)
    /\ method # None
    /\ method # ret.by
    /\ test_method_validity(call.T, method)

integral_of(m) ==
    IF call'.op = "T_dependent_property_integral_over_T"
    THEN calculate_integral_over_T(call'.T1, call'.T2, m, tabular_data_interpolators)
    ELSE calculate_integral(call'.T1, call'.T2, m, tabular_data_interpolators)

\* C32: T_dependent_property_integral(T1, T2) and
\* T_dependent_property_integral_over_T(T1, T2) return the integral by the
\* first method of select_valid_methods(T1) whose integration does not
\* raise, a method valid at T1 whether or not it is valid at T2, and None
\* when no candidate succeeds
C32_IntegralCandidatesAtT1 ==
    [][ ( call'.op \in {"T_dependent_property_integral", "T_dependent_property_integral_over_T"}
          /\ ret'.kind # "raise" ) =>
          \A list \in { select_valid_methods(call'.T1).list } :
            \A m \in { first_not_raising(list, LAMBDA n : integral_of(n).raised) } :
              IF m = None THEN ret'.kind = "None"
              ELSE /\ ret'.kind = "value"
                   /\ ret'.by = m
                   /\ ret'.value = integral_of(m).value
                   /\ test_method_validity(call'.T1, ret'.by) ]_vars

\* an integral by a method that is not valid at T2, while another method is
\* valid at T2 and not at T1
C32_Witness ==
    /\ call.op \in {"T_dependent_property_integral", "T_dependent_property_integral_over_T"}
    /\ ret.kind = "value"
    /\ ~test_method_validity(call.T2, ret.by)
    /\ \E n \in all_methods : /\ ~test_method_validity_raises(n)
                               /\ test_method_validity(call.T2, n)
                               /\ ~test_method_validity(call.T1, n)

\* C37: T_dependent_property_derivative, T_dependent_property_integral and
\* T_dependent_property_integral_over_T leave the active method,
\* sorted_valid_methods, user_methods, forced, all_methods and tabular_data
\* as they were, whether a value or None is returned
C37_SelectionStateUnchanged ==
    [][ call'.op \in {"T_dependent_property_derivative", "T_dependent_property_integral",
                      "T_dependent_property_integral_over_T"} =>
          UNCHANGED <<method, sorted_valid_methods, user_methods, forced, all_methods,
                      tabular_data>> ]_vars

\* a derivative or an integral was returned by a method other than the
\* active one, from a list other than the stored one
C37_Witness ==
    /\ call.op \in {"T_dependent_property_derivative", "T_dependent_property_integral",
                     "T_dependent_property_integral_over_T"}
    /\ ret.kind = "value"
    /\ method # None
    /\ ret.by # method
    /\ ret.by \notin Range(sorted_valid_methods)

----------------------------------------------------------------------------
(* The ranked list after accepted configuration calls *)

\* C35: after set_user_methods and set_tabular_data calls that all returned
\* without raising, select_valid_methods(T) does not raise and, forced being
\* False, its list holds every method of all_methods that is valid at T
C35_Original ==
    call.op = "select_valid_methods" =>
        /\ ret.kind # "raise"
        /\ ~forced => \A m \in all_methods :
                          (~test_method_validity_raises(m) /\ test_method_validity(call.T, m))
                              => m \in Range(ret.list)

\* C38: the list select_valid_methods returns holds no method name twice
C38_Original ==
    (call.op = "select_valid_methods" /\ ret.kind = "value") =>
        \A m \in Range(ret.list) : Count(ret.list, m) = 1

----------------------------------------------------------------------------
(* solve_prop: the errors it ends with and the temperature it returns *)

\* C33 (as claimed): when T_dependent_property returns None at a trial
\* temperature of solve_prop, solve_prop raises the 'not possible to
\* calculate the desired value' error and no other
C33_Original ==
    [][ (call'.op = "solve_prop" /\ Tmin # Unset /\ Tmax # Unset) =>
          \A trials \in { solve_trials } :
             (\E i \in DOMAIN trials : trials[i].kind = "None")
                => ret'.kind = "raise" /\ ret'.err = "not possible" ]_vars

\* brenth stops at a bracket 1 K wide; the tolerance in the property is the
\* most a method of the inputs changes over 1 K
SolverTolerance ==
    LET slopes == {TEST_METHOD_1_coeffs[2], TEST_METHOD_2_coeffs[2]}
                    \cup { Div(Abs(d.properties[2] - d.properties[1]), d.Ts[2] - d.Ts[1]) :
                              d \in DatasetsSolve }
    IN CHOOSE x \in slopes : \A y \in slopes : y <= x

----------------------------------------------------------------------------
(* The active method and the stored list *)

\* C36: T_dependent_property changes the active method only when a method
\* of the full path succeeds: after a return with a value the stored method
\* is the method that computed the value, after a return of None the stored
\* method is the one stored before the call
C36_ActiveMethodIsComputingMethod ==
    [][ call'.op = "T_dependent_property" =>
          /\ ret'.kind = "value" =>
                /\ method' = ret'.by
                /\ ret'.value = value_at(call'.T, method')
          /\ ret'.kind = "None" => method' = method
          /\ method' # method => ret'.kind = "value" /\ ret'.path = "full" ]_vars

\* a call with an active method returned None and kept that method
C36_Witness ==
    /\ call.op = "T_dependent_property"
    /\ ret.kind = "None"
    /\ call.method_before # None
    /\ method = call.method_before

\* C39 (as claimed): whenever the active method is not None it is an element
\* of sorted_valid_methods
C39_Original ==
    method # None => method \in Range(sorted_valid_methods)

============================================================================
